---- MODULE Spec2Model ----
(***************************************************************************)
(* fastws: the connection session (Conn) with its background reader, the   *)
(* write lock, the frame and error channels and the close protocol, over   *)
(* an abstract Frame value.                                                *)
(*                                                                         *)
(* Goroutines of the session:                                              *)
(*   - readLoop, started by Reset, decodes frames from the transport and   *)
(*     publishes them on conn.framer (read errors on conn.errch);          *)
(*   - the caller's goroutines (Procs), each running a program of public   *)
(*     Conn operations.                                                    *)
(* The peer is a script of frames that reach the transport in order, with  *)
(* or without a final end of stream.                                       *)
(***************************************************************************)
EXTENDS Integers, Sequences, FiniteSets, TLC

\* ------------------------------------------------------------------ bounds

\* Caller goroutines operating on the one Conn.
NumProcs == 2

\* Capacity of conn.framer (make(chan *Frame, 128)), scaled down.
FramerCap == 2

Procs == 1..NumProcs

\* ------------------------------------------------------------------ frames

CodeContinuation == 0
CodeText == 1
CodeBinary == 2
CodeClose == 8
CodePing == 9
CodePong == 10

StatusNone == 1000
StatusProtocolError == 1002
StatusNotConsistent == 1007
StatusTooBig == 1009

\* Payload bytes are two bits wide; a mask key is four of them.
Xor(a, c) ==
  (((a % 2) + (c % 2)) % 2) + 2 * ((((a \div 2) % 2) + ((c \div 2) % 2)) % 2)

\* mask(): b[i] ^= mask[i&3]  (sequences are 1-based, bytes 0-based)
mask(key, b) == [i \in 1..Len(b) |-> Xor(b[i], key[((i - 1) % 4) + 1])]

\* The keys readMask (crypto/rand) may produce; two of them stand for all.
MaskKeys == {<<1, 2, 3, 0>>, <<3, 3, 1, 2>>}

ZeroKey == <<0, 0, 0, 0>>

\* A Frame after Reset: every bit clear, zero key and status, empty payload.
\* id is not a field of the Go value: it numbers the peer's frames in wire
\* order (0 for frames built locally) so that the order of delivery can be
\* stated.
NoFrame ==
  [id |-> 0, fin |-> FALSE, code |-> CodeContinuation, masked |-> FALSE,
   key |-> ZeroKey, status |-> 0, b |-> <<>>]

IsFin(fr) == fr.fin
IsPing(fr) == fr.code = CodePing
IsPong(fr) == fr.code = CodePong
IsContinuation(fr) == fr.code = CodeContinuation
IsClose(fr) == fr.code = CodeClose
IsMasked(fr) == fr.masked
\* IsControl is used by ReadFull; the codes above CodeBinary that have the
\* fourth bit set are the control codes.
IsControl(fr) == fr.code \in {CodeClose, CodePing, CodePong}
hasStatus(fr) == fr.status > 0

ModeText == "ModeText"
ModeBinary == "ModeBinary"
ModeNone == "ModeNone"

Mode(fr) ==
  IF fr.code = CodeText THEN ModeText
  ELSE IF fr.code = CodeBinary THEN ModeBinary
  ELSE ModeNone

SetFin(fr) == [fr EXCEPT !.fin = TRUE]
SetCode(fr, code) == [fr EXCEPT !.code = code % 16]
SetStatus(fr, status) == [fr EXCEPT !.status = status]
SetPayload(fr, b) == [fr EXCEPT !.b = b]

\* Mask(): only a frame with a payload gets the mask bit and a key.
Mask(fr, key) ==
  IF Len(fr.b) > 0
  THEN [fr EXCEPT !.masked = TRUE, !.key = key, !.b = mask(key, fr.b)]
  ELSE fr

\* UnsetMask(): op[1] ^= maskBit.
UnsetMask(fr) == [fr EXCEPT !.masked = ~fr.masked]

\* Unmask(): mask(key, b); UnsetMask().
Unmask(fr) == UnsetMask([fr EXCEPT !.b = mask(fr.key, fr.b)])

\* WriteTo(): the writes the frame makes on the buffered writer, in order:
\* op, the mask key if masked, the status if any, the payload.
WriteTo(fr) ==
  <<"op">> \o (IF IsMasked(fr) THEN <<"mask">> ELSE <<>>)
           \o (IF hasStatus(fr) THEN <<"status">> ELSE <<>>)
           \o <<"b">>

\* ------------------------------------------------------------------- peer

\* The peer's frames as they arrive from the transport (already numbered in
\* wire order by Number). A server-role Conn receives masked frames, a
\* client-role Conn unmasked ones; PeerFrame builds the frame the peer puts
\* on the wire for the given role of the local Conn.
PeerFrame(fin, code, status, b, toServer) ==
  LET fr == [NoFrame EXCEPT !.fin = fin, !.code = code, !.status = status,
                            !.b = b]
  IN  IF toServer /\ Len(b) > 0
      THEN [fr EXCEPT !.masked = TRUE, !.key = <<1, 2, 3, 0>>,
                      !.b = mask(<<1, 2, 3, 0>>, b)]
      ELSE fr

\* conn.MaxPayloadSize (DefaultPayloadSize, 1 << 20), scaled down.
MaxPayloadSize == 2

PText(s) == PeerFrame(TRUE, CodeText, 0, <<1>>, s)
PFrag1(s) == PeerFrame(FALSE, CodeText, 0, <<1>>, s)
PFrag2(s) == PeerFrame(TRUE, CodeContinuation, 0, <<2>>, s)
PPing(s) == PeerFrame(TRUE, CodePing, 0, <<>>, s)
PPing2(s) == PeerFrame(TRUE, CodePing, 0, <<2>>, s)
PPingNoFin(s) == PeerFrame(FALSE, CodePing, 0, <<>>, s)
PClose(s) == PeerFrame(TRUE, CodeClose, StatusNone, <<>>, s)
PCloseNoStatus(s) == PeerFrame(TRUE, CodeClose, 0, <<>>, s)
PTooBig(s) ==
  PeerFrame(TRUE, CodeText, 0, [i \in 1..(MaxPayloadSize + 1) |-> 1], s)

Number(frames) == [i \in 1..Len(frames) |-> [frames[i] EXCEPT !.id = i]]

\* The calls of a caller's program.
W(mode, b) == [op |-> "write", mode |-> mode, code |-> 0, status |-> 0, b |-> b]
SC(code, status) ==
  [op |-> "SendCode", mode |-> ModeNone, code |-> code, status |-> status,
   b |-> <<>>]
NF == [op |-> "NextFrame", mode |-> ModeNone, code |-> 0, status |-> 0, b |-> <<>>]
RM == [op |-> "ReadMessage", mode |-> ModeNone, code |-> 0, status |-> 0, b |-> <<>>]
CS(reason) ==
  [op |-> "CloseString", mode |-> ModeNone, code |-> 0, status |-> 0,
   b |-> reason]

\* A session: the role of the Conn, whether ReadTimeout is set, the frames
\* the peer sends, in order, whether it ends its stream after the last one,
\* and the calls each caller goroutine makes, in order; a goroutine beyond
\* those listed makes one NextFrame call.
Session(srv, rt, frames, eof, progs) ==
  [server |-> srv, readTimeout |-> rt, frames |-> Number(frames),
   eof |-> eof, progs |-> progs]

\* Sessions of a server's hijack callback: the first goroutine runs the
\* handler and then the callback's own conn.Close(), after which the Conn is
\* released to connPool; the second is a goroutine the handler started.
HijackSessions ==
  { Session(TRUE, FALSE, <<PClose(TRUE)>>, TRUE,
            << <<CS(<<>>)>>, <<RM>> >>),
    Session(TRUE, FALSE, <<PText(TRUE)>>, TRUE,
            << <<RM, CS(<<>>)>>, <<>> >>) }

Sessions ==
  { Session(FALSE, FALSE, <<>>, FALSE,
            << <<W(ModeText, <<1>>), CS(<<>>)>>, <<SC(CodePing, 0)>> >>),
    Session(TRUE, FALSE, <<PFrag1(TRUE), PFrag2(TRUE)>>, FALSE,
            << <<RM>>, <<RM>> >>),
    Session(TRUE, FALSE, <<PText(TRUE), PText(TRUE)>>, TRUE,
            << <<NF>>, <<NF, NF>> >>),
    Session(TRUE, FALSE, <<PClose(TRUE), PText(TRUE)>>, FALSE,
            << <<CS(<<3>>), NF>>, <<W(ModeBinary, <<>>)>> >>),
    Session(TRUE, TRUE, <<PText(TRUE)>>, FALSE,
            << <<RM>>, <<CS(<<>>), CS(<<>>)>> >>),
    Session(TRUE, FALSE, <<PText(TRUE), PText(TRUE), PText(TRUE), PText(TRUE)>>,
            FALSE, << <<CS(<<>>)>>, <<>> >>),
    Session(FALSE, FALSE, <<PCloseNoStatus(FALSE)>>, TRUE,
            << <<RM, RM>>, <<CS(<<3>>)>> >>),
    Session(TRUE, FALSE, <<PText(TRUE), PClose(TRUE)>>, FALSE,
            << <<CS(<<3>>)>>, <<>> >>),
    Session(TRUE, FALSE, <<PPing(TRUE), PClose(TRUE)>>, FALSE,
            << <<RM>>, <<W(ModeText, <<1>>)>> >>),
    Session(TRUE, FALSE, <<PText(TRUE), PTooBig(TRUE)>>, FALSE,
            << <<RM, RM>>, <<NF>> >>),
    Session(TRUE, FALSE, <<PFrag1(TRUE), PPing2(TRUE), PFrag2(TRUE)>>, FALSE,
            << <<RM>>, <<>> >>),
    Session(FALSE, FALSE, <<PPing2(FALSE), PPing(FALSE), PText(FALSE)>>, FALSE,
            << <<RM>>, <<CS(<<>>)>> >>),
    Session(TRUE, FALSE, <<PFrag1(TRUE), PText(TRUE)>>, FALSE,
            << <<RM>>, <<>> >>),
    Session(TRUE, FALSE, <<PFrag1(TRUE), PPingNoFin(TRUE), PFrag2(TRUE)>>,
            FALSE, << <<RM>>, <<>> >>),
    Session(TRUE, FALSE, <<PPingNoFin(TRUE), PText(TRUE)>>, FALSE,
            << <<RM>>, <<>> >>),
    Session(TRUE, FALSE, <<PText(FALSE)>>, FALSE, << <<RM>>, <<>> >>),
    Session(FALSE, FALSE, <<PText(TRUE)>>, FALSE, << <<RM>>, <<>> >>),
    Session(TRUE, FALSE, <<PFrag1(TRUE), PFrag1(TRUE)>>, FALSE,
            << <<RM>>, <<>> >>),
    Session(TRUE, FALSE, <<PTooBig(TRUE)>>, FALSE,
            << <<CS(<<>>)>>, <<>> >>),
    Session(TRUE, FALSE, <<>>, FALSE, << <<CS(<<>>)>>, <<CS(<<>>)>> >>) }
    \cup HijackSessions

\* ------------------------------------------------------------------ state

VARIABLES
  server,       \* conn.server
  readTimeout,  \* conn.ReadTimeout > 0
  closed,       \* conn.closed
  lck,          \* conn.lck: 0 when free, else the goroutine holding it
  framer,       \* conn.framer: the frames buffered in the channel
  framerClosed, \* close(conn.framer) has run
  errch,        \* conn.errch: the errors buffered in the channel
  errchClosed,  \* close(conn.errch) has run
  bf,           \* conn.bf's writer: chunks written and not yet flushed
  wire,         \* chunks that have reached the transport (conn.c)
  netClosed,    \* conn.c.Close() has run
  script,       \* the peer: [frames, eof]
  rl,           \* readLoop: [pc, n (frames decoded), fr, err]
  gs,           \* the caller goroutines' positions and locals
  prog,         \* the calls each caller has still to make
  dequeued,     \* ids of the frames ReadFrame calls received, in that order
  delivered,    \* ids of the frames ReadFrame calls returned, in return order
  closeRet,     \* "none", or the strongest result a completed Close gave
  codec,        \* a Frame written with WriteTo and read back with ReadFrom
  users,        \* conn.userValues and the goroutines accessing it
  upgrade,      \* an upgrade request in the hands of Upgrader.Upgrade
  client,       \* a client handshake in the hands of UpgradeAsClient
  pool,         \* connPool: the Conn's release and its next acquireConn
  ops,          \* the Conn that counts its frame reads and writes in flight
  framePool,    \* framePool and a Frame that is set, written and released
  limit,        \* conn.MaxPayloadSize between the handler and readLoop
  locker        \* a locker and the goroutines calling Lock and Unlock

\* The parts of the package outside the Conn's reading and writing.
auxVars ==
  <<codec, users, upgrade, client, pool, ops, framePool, limit, locker>>

\* The Conn, its peer and its callers.
connState ==
  <<server, readTimeout, closed, lck, framer, framerClosed, errch,
    errchClosed, bf, wire, netClosed, script, rl, gs, prog, dequeued,
    delivered, closeRet>>

vars == <<connState, auxVars>>

connVars ==
  <<closed, lck, framer, framerClosed, errch, errchClosed, bf, wire,
    netClosed>>

\* A caller goroutine between two calls.
Idle ==
  [pc |-> "idle", top |-> "none", ctx |-> "none", fr |-> NoFrame,
   b |-> <<>>, ids |-> <<>>, between |-> FALSE, err |-> "nil", wi |-> 0,
   wait |-> FALSE, mode |-> ModeNone,
   \* history of the call, for the properties
   after |-> "none", parkedAtClose |-> FALSE, parkedAtErrchClose |-> FALSE,
   wrote |-> <<>>, reason |-> <<>>, drainExit |-> "none",
   gotClose |-> NoFrame, sawOpen |-> FALSE, closer |-> FALSE,
   netWasClosed |-> FALSE, pings |-> <<>>, unanswered |-> FALSE,
   fragControl |-> FALSE]

\* A part of the package that a specification leaves out.
Unused == [pc |-> "unused"]

Init ==
  /\ codec = Unused
  /\ users = Unused
  /\ upgrade = Unused
  /\ client = Unused
  /\ ops = Unused
  /\ framePool = Unused /\ limit = Unused /\ locker = Unused
  /\ \E ss \in Sessions :
       /\ pool = [hijack |-> ss \in HijackSessions, released |-> FALSE,
                  gen |-> 1, rl |-> "none"]
       /\ server = ss.server
       /\ readTimeout = ss.readTimeout
       /\ script = [frames |-> ss.frames, eof |-> ss.eof]
       /\ prog = [p \in Procs |->
                    IF p <= Len(ss.progs) THEN ss.progs[p] ELSE <<NF>>]
  /\ closed = FALSE
  /\ lck = 0
  /\ framer = <<>>
  /\ framerClosed = FALSE
  /\ errch = <<>>
  /\ errchClosed = FALSE
  /\ bf = <<>>
  /\ wire = <<>>
  /\ netClosed = FALSE
  /\ rl = [pc |-> "read", n |-> 0, fr |-> NoFrame, err |-> "nil"]
  /\ gs = [p \in Procs |-> Idle]
  /\ dequeued = <<>>
  /\ delivered = <<>>
  /\ closeRet = "none"

\* -------------------------------------------------- returns and transfers

\* A caller's operation returns err to the caller.
Done(r, e) == [r EXCEPT !.pc = "idle", !.err = e, !.netWasClosed = netClosed]

\* sendClose(status, nil): the Close frame it builds (Mask masks nothing, the
\* payload being empty) and hands to WriteFrame.
sendCloseFrame(status, b, key) ==
  LET fr == SetPayload(SetStatus(SetCode(SetFin(NoFrame), CodeClose), status), b)
  IN  IF ~server THEN Mask(fr, key) ELSE fr

\* The Close status ReadFull sends for an error, 0 when it sends none.
\* errFrameBetweenContinuation reaches the switch wrapped by fmt.Errorf, a
\* different error value, so only the bare sentinel would match.
ErrStatus(e) ==
  CASE e = "errLenTooBig" -> StatusTooBig
    [] e = "errStatusLen" -> StatusNotConsistent
    [] e \in {"errControlMustNotBeFragmented", "errFrameBetweenContinuation"}
         -> StatusProtocolError
    [] OTHER -> 0

\* ReadFull after its loop broke with err # nil: sendClose for the protocol
\* errors, then mustClose(err == nil), that is mustClose(false).
ReadFullErr(r, e) ==
  IF ErrStatus(e) > 0
  THEN [r EXCEPT !.pc = "wf_lock", !.ctx = "sendClose", !.err = e,
                 !.fr = sendCloseFrame(ErrStatus(e), <<>>, ZeroKey)]
  ELSE [r EXCEPT !.pc = "mc_lock", !.ctx = "ReadFull", !.err = e,
                 !.wait = FALSE]

\* ReadFull's loop starts over: fr.Reset(), ReadFrame.
ReadFullLoop(r) == [r EXCEPT !.pc = "rf_select", !.fr = NoFrame]

\* ReadFrame ends with an error: NextFrame returns it, ReadFull breaks.
ReadFrameFail(r, e) ==
  IF r.top = "NextFrame" THEN Done(r, e) ELSE ReadFullErr(r, e)

\* ReadFrame received fr2 from conn.framer; CopyTo and the return follow.
ReadFrameGot(r, fr2) == [r EXCEPT !.pc = "rf_copy", !.fr = fr2]

\* WriteFrame returned e: where its caller goes on.
AfterWriteFrame(r, e) ==
  CASE r.ctx \in {"write", "SendCode"} -> Done(r, e)
    [] r.ctx = "Pong" ->
         \* checkRequirements: err = SendCode(...), c = true
         IF e # "nil" THEN ReadFullErr(r, e) ELSE ReadFullLoop(r)
    [] r.ctx = "ReplyClose" ->
         \* ReplyClose drops WriteFrame's error and calls mustClose(false)
         [r EXCEPT !.pc = "mc_lock", !.wait = FALSE]
    [] r.ctx = "CloseString" ->
         \* CloseString drops sendClose's error and calls mustClose(true)
         [r EXCEPT !.pc = "mc_lock", !.wait = TRUE]
    [] r.ctx = "sendClose" ->
         \* ReadFull: nErr wraps err; then mustClose(false)
         [r EXCEPT !.pc = "mc_lock", !.ctx = "ReadFull", !.wait = FALSE,
                   !.err = IF e # "nil" THEN "error closing connection"
                           ELSE r.err]

\* mustClose returned e: where its caller goes on.
AfterMustClose(r, e) ==
  CASE r.ctx = "CloseString" -> Done(r, e)
    [] r.ctx = "ReplyClose" ->
         \* checkRequirements turns nil into EOF; ReadFull breaks on it
         ReadFullErr(r, IF e = "nil" THEN "EOF" ELSE e)
    [] r.ctx = "ReadFull" -> Done(r, r.err)

\* Goroutines parked in ReadFrame's select: no case was ready on entry.
Parked == {p \in Procs : gs[p].pc = "rf_parked"}

\* A Close or CloseString call returned: the strongest result so far.
CloseRetAfter(r) ==
  IF r.pc = "idle" /\ r.top = "CloseString"
  THEN (IF r.err = "nil" \/ closeRet = "nil" THEN "nil" ELSE "EOF")
  ELSE closeRet

\* A caller's call begins.
Begin(top, ctx, pc, fr) ==
  [Idle EXCEPT !.top = top, !.ctx = ctx, !.pc = pc, !.fr = fr,
               !.after = closeRet]

\* ------------------------------------------------- the callers' operations

\* The next call of p's program is op.
Calls(p, op) ==
  /\ gs[p].pc = "idle"
  /\ prog[p] # <<>>
  /\ Head(prog[p]).op = op
  /\ prog' = [prog EXCEPT ![p] = Tail(@)]

\* Write, WriteString, WriteMessage -> write(mode, b).
write(p) ==
  /\ Calls(p, "write")
  /\ \E key \in (IF server THEN {ZeroKey} ELSE MaskKeys) :
       LET a == Head(prog[p])
           fr0 == SetPayload(
                    SetCode(SetFin(NoFrame),
                            IF a.mode = ModeBinary THEN CodeBinary
                            ELSE CodeText),
                    a.b)
           fr == IF ~server THEN Mask(fr0, key) ELSE fr0
       IN  gs' = [gs EXCEPT ![p] = Begin("write", "write", "wf_lock", fr)]
  /\ UNCHANGED <<auxVars, server, readTimeout, connVars, script, rl, dequeued,
                 delivered, closeRet>>

\* SendCode(code, status, nil).
SendCode(p) ==
  /\ Calls(p, "SendCode")
  /\ LET a == Head(prog[p])
         fr0 == SetCode(SetFin(NoFrame), a.code)
         fr1 == IF a.status > 0 THEN SetStatus(fr0, a.status) ELSE fr0
         \* !conn.server && !fr.IsMasked(): Mask() of an empty payload
         fr == IF ~server /\ ~IsMasked(fr1) THEN Mask(fr1, ZeroKey) ELSE fr1
     IN  gs' = [gs EXCEPT ![p] = Begin("SendCode", "SendCode", "wf_lock", fr)]
  /\ UNCHANGED <<auxVars, server, readTimeout, connVars, script, rl, dequeued,
                 delivered, closeRet>>

\* NextFrame: AcquireFrame, ReadFrame.
NextFrame(p) ==
  /\ Calls(p, "NextFrame")
  /\ gs' = [gs EXCEPT ![p] = Begin("NextFrame", "NextFrame", "rf_select", NoFrame)]
  /\ UNCHANGED <<auxVars, server, readTimeout, connVars, script, rl, dequeued,
                 delivered, closeRet>>

\* ReadMessage(nil) -> read -> ReadFull: the loop's first fr.Reset().
ReadMessage(p) ==
  /\ Calls(p, "ReadMessage")
  /\ gs' = [gs EXCEPT ![p] = Begin("ReadMessage", "ReadFull", "rf_select", NoFrame)]
  /\ UNCHANGED <<auxVars, server, readTimeout, connVars, script, rl, dequeued,
                 delivered, closeRet>>

\* Close() is CloseString(""). The call begins; a reader parked at this
\* moment is remembered as such.
CloseString(p) ==
  /\ Calls(p, "CloseString")
  /\ gs' = [q \in Procs |->
              IF q = p
              THEN [Begin("CloseString", "CloseString", "cs_check", NoFrame)
                      EXCEPT !.reason = Head(prog[p]).b]
              ELSE IF q \in Parked
              THEN [gs[q] EXCEPT !.parkedAtClose = TRUE]
              ELSE gs[q]]
  /\ UNCHANGED <<auxVars, server, readTimeout, connVars, script, rl, dequeued,
                 delivered, closeRet>>

\* CloseString: the closed check under conn.lck, then sendClose(StatusNone,
\* bb) up to its call of WriteFrame.
CloseStringCheck(p) ==
  /\ gs[p].pc = "cs_check"
  /\ lck = 0
  /\ \E key \in (IF server \/ gs[p].reason = <<>> THEN {ZeroKey} ELSE MaskKeys) :
       LET r == IF closed
                THEN Done(gs[p], "EOF")
                ELSE [gs[p] EXCEPT !.pc = "wf_lock",
                        !.fr = sendCloseFrame(StatusNone, gs[p].reason, key)]
       IN  /\ gs' = [gs EXCEPT ![p] = r]
           /\ closeRet' = CloseRetAfter(r)
  /\ UNCHANGED <<auxVars, server, readTimeout, connVars, script, rl, prog,
                 dequeued, delivered>>

\* ----------------------------------------------------------- WriteFrame

\* WriteFrame without conn.lck: the closed check alone.
WriteFrameLock_NoLock(p) ==
  /\ gs[p].pc = "wf_lock"
  /\ gs' = [gs EXCEPT ![p] =
              IF closed THEN AfterWriteFrame(@, "EOF")
              ELSE [@ EXCEPT !.pc = "wf_write", !.wi = 1]]
  /\ UNCHANGED <<auxVars, server, readTimeout, connVars, script, rl, prog, dequeued,
                 delivered, closeRet>>

\* conn.lck.Lock(); if conn.closed: Unlock and return EOF.
WriteFrameLock(p) ==
  /\ gs[p].pc = "wf_lock"
  /\ lck = 0
  /\ IF closed
     THEN /\ gs' = [gs EXCEPT ![p] =
                      AfterWriteFrame([@ EXCEPT !.sawOpen = FALSE,
                                         !.unanswered = @ \/ gs[p].ctx = "Pong"],
                                      "EOF")]
          /\ lck' = lck
     ELSE /\ gs' = [gs EXCEPT ![p] = [@ EXCEPT !.pc = "wf_write", !.wi = 1,
                                            !.sawOpen = TRUE]]
          /\ lck' = p
  /\ UNCHANGED <<auxVars, server, readTimeout, closed, framer, framerClosed, errch,
                 errchClosed, bf, wire, netClosed, script, rl, prog,
                 dequeued, delivered, closeRet>>

\* One write of fr.WriteTo(conn.bf). The buffered writer passes a payload
\* that does not fit straight to the transport, after what it holds.
WriteFrameWrite(p) ==
  /\ gs[p].pc = "wf_write"
  /\ LET parts == WriteTo(gs[p].fr)
         part == parts[gs[p].wi]
         chunk == [w |-> p, part |-> part, fr |-> gs[p].fr]
     IN  /\ \E spill \in (IF part = "b" THEN BOOLEAN ELSE {FALSE}) :
              IF spill
              THEN wire' = wire \o bf \o <<chunk>> /\ bf' = <<>>
              ELSE wire' = wire /\ bf' = Append(bf, chunk)
         /\ gs' = [gs EXCEPT ![p] =
                     IF gs[p].wi = Len(parts)
                     THEN [@ EXCEPT !.pc = "wf_flush", !.wi = 0]
                     ELSE [@ EXCEPT !.wi = @ + 1]]
  /\ UNCHANGED <<auxVars, server, readTimeout, closed, lck, framer, framerClosed,
                 errch, errchClosed, netClosed, script, rl, prog,
                 dequeued, delivered, closeRet>>

\* conn.bf.Flush(); conn.lck.Unlock(); return.
WriteFrameFlush(p) ==
  /\ gs[p].pc = "wf_flush"
  /\ wire' = wire \o bf
  /\ bf' = <<>>
  /\ lck' = 0
  /\ gs' = [gs EXCEPT ![p] =
              AfterWriteFrame([@ EXCEPT !.wrote = Append(@, gs[p].fr)], "nil")]
  /\ UNCHANGED <<auxVars, server, readTimeout, closed, framer, framerClosed, errch,
                 errchClosed, netClosed, script, rl, prog, dequeued,
                 delivered, closeRet>>

\* ------------------------------------------------------------ ReadFrame

\* A ReadFrame that receives only while no writer holds conn.lck.
ReadFrame_UnderLock(p) ==
  /\ gs[p].pc = "rf_select"
  /\ lck = 0
  /\ \/ /\ framer # <<>>
        /\ gs' = [gs EXCEPT ![p] = ReadFrameGot(@, Head(framer))]
        /\ framer' = Tail(framer)
        /\ dequeued' = Append(dequeued, Head(framer).id)
        /\ errch' = errch
     \/ /\ framer = <<>> /\ framerClosed
        /\ gs' = [gs EXCEPT ![p] = ReadFrameFail(@, "EOF")]
        /\ UNCHANGED <<framer, dequeued, errch>>
     \/ /\ errch # <<>>
        /\ gs' = [gs EXCEPT ![p] = ReadFrameFail(@, Head(errch))]
        /\ errch' = Tail(errch)
        /\ UNCHANGED <<framer, dequeued>>
     \/ /\ errch = <<>> /\ errchClosed
        /\ gs' = [gs EXCEPT ![p] = ReadFrameFail(@, "EOF")]
        /\ UNCHANGED <<framer, dequeued, errch>>
     \/ /\ framer = <<>> /\ ~framerClosed /\ errch = <<>> /\ ~errchClosed
        /\ gs' = [gs EXCEPT ![p] = [@ EXCEPT !.pc = "rf_parked"]]
        /\ UNCHANGED <<framer, dequeued, errch>>
  /\ UNCHANGED <<auxVars, server, readTimeout, closed, lck, framerClosed, errchClosed,
                 bf, wire, netClosed, script, rl, prog, delivered,
                 closeRet>>

\* The select of ReadFrame on entry: one of the ready cases is taken; with
\* none ready the goroutine parks until a channel operation or the timer
\* wakes it.
ReadFrame(p) ==
  /\ gs[p].pc = "rf_select"
  /\ \/ /\ framer # <<>>
        /\ gs' = [gs EXCEPT ![p] = ReadFrameGot(@, Head(framer))]
        /\ framer' = Tail(framer)
        /\ dequeued' = Append(dequeued, Head(framer).id)
        /\ errch' = errch
     \/ /\ framer = <<>> /\ framerClosed
        /\ gs' = [gs EXCEPT ![p] = ReadFrameFail(@, "EOF")]
        /\ UNCHANGED <<framer, dequeued, errch>>
     \/ /\ errch # <<>>
        /\ gs' = [gs EXCEPT ![p] = ReadFrameFail(@, Head(errch))]
        /\ errch' = Tail(errch)
        /\ UNCHANGED <<framer, dequeued>>
     \/ /\ errch = <<>> /\ errchClosed
        /\ gs' = [gs EXCEPT ![p] = ReadFrameFail(@, "EOF")]
        /\ UNCHANGED <<framer, dequeued, errch>>
     \/ /\ framer = <<>> /\ ~framerClosed /\ errch = <<>> /\ ~errchClosed
        /\ gs' = [gs EXCEPT ![p] = [@ EXCEPT !.pc = "rf_parked"]]
        /\ UNCHANGED <<framer, dequeued, errch>>
  /\ UNCHANGED <<auxVars, server, readTimeout, closed, lck, framerClosed, errchClosed,
                 bf, wire, netClosed, script, rl, prog, delivered,
                 closeRet>>

\* case <-expire: the ReadTimeout timer fires.
ReadFrameTimeout(p) ==
  /\ readTimeout
  /\ gs[p].pc \in {"rf_select", "rf_parked"}
  /\ gs' = [gs EXCEPT ![p] = ReadFrameFail(@, "i/o timeout")]
  /\ UNCHANGED <<auxVars, server, readTimeout, connVars, script, rl, prog,
                 dequeued, delivered, closeRet>>

\* A Pong that leaves the Ping's payload out.
PongFrame_Empty(fr) ==
  SetCode(SetFin(NoFrame), CodePong)

\* SendCode(CodePong, 0, fr.Payload()) as checkRequirements calls it.
PongFrame(fr) ==
  LET pong == SetPayload(SetCode(SetFin(NoFrame), CodePong), fr.b)
  IN  IF ~server /\ ~IsMasked(pong) THEN Mask(pong, <<1, 2, 3, 0>>) ELSE pong

\* A reply that always carries status 1000.
ReplyClose_Status1000(fr) ==
  SetStatus(SetCode(SetFin(fr), CodeClose), StatusNone)

\* ReplyClose(fr): fr.SetFin(), fr.SetClose(); the received frame itself is
\* written back.
ReplyClose(fr) == SetCode(SetFin(fr), CodeClose)

\* ReadFull's loop body after ReadFrame returned a frame: Unmask,
\* checkRequirements, the continuation check, append, FIN.
ReadFullFrame(r0, fr0) ==
  LET fr == IF IsMasked(fr0) THEN Unmask(fr0) ELSE fr0
      r == [r0 EXCEPT !.fragControl = @ \/ (IsControl(fr) /\ ~IsFin(fr))]
      fragmented == ~IsFin(fr) /\ ~r.between
  IN  IF ~server /\ IsMasked(fr)
      THEN ReadFullErr(r, "Server sent masked content")
      ELSE IF IsPing(fr)
      THEN (IF fragmented
            THEN ReadFullErr(r, "errControlMustNotBeFragmented")
            ELSE [r EXCEPT !.pc = "wf_lock", !.ctx = "Pong",
                           !.pings = Append(@, fr.b),
                           !.fr = PongFrame(fr)])
      ELSE IF IsPong(fr)
      THEN (IF fragmented
            THEN ReadFullErr(r, "errControlMustNotBeFragmented")
            ELSE ReadFullLoop(r))
      ELSE IF IsClose(fr)
      THEN (IF fragmented
            THEN ReadFullErr(r, "errControlMustNotBeFragmented")
            \* ReplyClose: SetFin, SetClose, WriteFrame(fr), mustClose(false)
            ELSE [r EXCEPT !.pc = "wf_lock", !.ctx = "ReplyClose",
                           !.gotClose = fr,
                           !.fr = ReplyClose(fr)])
      ELSE IF r.between /\ ~IsFin(fr) /\ ~IsContinuation(fr) /\ ~IsControl(fr)
      THEN ReadFullErr(r, "received frame between continuation frames. Got")
      ELSE LET r1 == [r EXCEPT !.b = @ \o fr.b, !.ids = Append(@, fr.id),
                               !.fr = fr]
           IN  IF IsFin(fr)
               THEN [Done(r1, "nil") EXCEPT !.mode = Mode(fr)]
               ELSE ReadFullLoop([r1 EXCEPT !.between = TRUE])

\* fr2.CopyTo(fr), ReleaseFrame(fr2) and ReadFrame's return to NextFrame or
\* to ReadFull, which goes on to its next call.
ReadFrameCopy(p) ==
  /\ gs[p].pc = "rf_copy"
  /\ delivered' = Append(delivered, gs[p].fr.id)
  /\ gs' = [gs EXCEPT ![p] =
              IF gs[p].top = "NextFrame"
              THEN Done(@, "nil")
              ELSE ReadFullFrame(@, gs[p].fr)]
  /\ UNCHANGED <<auxVars, server, readTimeout, connVars, script, rl, prog,
                 dequeued, closeRet>>

\* ------------------------------------------------------------- readLoop

\* fr.ReadFrom(conn.br) fails when the declared length exceeds
\* MaxPayloadSize, with an error made by fmt.Errorf.
ReadFromErr(fr) ==
  IF Len(fr.b) + (IF hasStatus(fr) THEN 2 ELSE 0) > MaxPayloadSize
  THEN "Max b size exceeded"
  ELSE "nil"

\* The loop's deferred close(conn.framer) and wg.Done(): parked readers wake
\* with EOF.
readLoopExit ==
  /\ framerClosed' = TRUE
  /\ gs' = [q \in Procs |->
              IF q \in Parked THEN ReadFrameFail(gs[q], "EOF") ELSE gs[q]]

\* fr.ReadFrom(conn.bf): the next frame of the peer, the end of its stream,
\* or the error of a transport closed locally (whose buffered frames may
\* still be decoded).
readLoop ==
  /\ rl.pc = "read"
  /\ \/ /\ rl.n < Len(script.frames)
        /\ LET fr == script.frames[rl.n + 1]
           IN  rl' = IF ReadFromErr(fr) = "nil"
                     THEN [rl EXCEPT !.pc = "send", !.n = @ + 1, !.fr = fr]
                     ELSE [rl EXCEPT !.pc = "errcheck", !.n = @ + 1,
                                     !.err = ReadFromErr(fr)]
        /\ UNCHANGED <<framerClosed, gs>>
     \/ /\ rl.n = Len(script.frames) /\ script.eof /\ ~netClosed
        /\ rl' = [rl EXCEPT !.pc = "done", !.err = "EOF"]
        /\ readLoopExit
     \/ /\ netClosed
        /\ rl' = [rl EXCEPT !.pc = "done",
                            !.err = "use of closed network connection"]
        /\ readLoopExit
  /\ UNCHANGED <<auxVars, server, readTimeout, closed, lck, framer, errch,
                 errchClosed, bf, wire, netClosed, script, prog, dequeued,
                 delivered, closeRet>>

\* A queue that hands out the newest frame first.
readLoopSend_Front ==
  /\ rl.pc = "send"
  /\ \/ /\ \E q \in Parked :
             gs' = [gs EXCEPT ![q] = ReadFrameGot(@, rl.fr)]
        /\ dequeued' = Append(dequeued, rl.fr.id)
        /\ framer' = framer
     \/ /\ Parked = {}
        /\ Len(framer) < FramerCap
        /\ framer' = <<rl.fr>> \o framer
        /\ UNCHANGED <<gs, dequeued>>
  /\ rl' = [rl EXCEPT !.pc = "read", !.fr = NoFrame]
  /\ UNCHANGED <<auxVars, server, readTimeout, closed, lck, framerClosed, errch,
                 errchClosed, bf, wire, netClosed, script, prog,
                 delivered, closeRet>>

\* conn.framer <- fr: to a parked reader if there is one, else into the
\* channel's buffer; readLoop blocks while the buffer is full.
readLoopSend ==
  /\ rl.pc = "send"
  /\ \/ /\ \E q \in Parked :
             gs' = [gs EXCEPT ![q] = ReadFrameGot(@, rl.fr)]
        /\ dequeued' = Append(dequeued, rl.fr.id)
        /\ framer' = framer
     \/ /\ Parked = {}
        /\ Len(framer) < FramerCap
        /\ framer' = Append(framer, rl.fr)
        /\ UNCHANGED <<gs, dequeued>>
  /\ rl' = [rl EXCEPT !.pc = "read", !.fr = NoFrame]
  /\ UNCHANGED <<auxVars, server, readTimeout, closed, lck, framerClosed, errch,
                 errchClosed, bf, wire, netClosed, script, prog,
                 delivered, closeRet>>

\* The error path's non-blocking receive on conn.errch: it finds the channel
\* closed (ok = false) or takes the default case (ok stays true). The
\* channel never holds an error here: readLoop is its only sender and
\* returns after its first send.
readLoopErrCheck ==
  /\ rl.pc = "errcheck"
  /\ IF errch = <<>> /\ errchClosed
     THEN /\ rl' = [rl EXCEPT !.pc = "done"]
          /\ readLoopExit
     ELSE /\ rl' = [rl EXCEPT !.pc = "errsend"]
          /\ UNCHANGED <<framerClosed, gs>>
  /\ UNCHANGED <<auxVars, server, readTimeout, closed, lck, framer, errch,
                 errchClosed, bf, wire, netClosed, script, prog, dequeued,
                 delivered, closeRet>>

\* conn.errch <- err: a send on a closed channel panics, which ends the
\* process and every goroutine with it; else the error goes to a parked
\* reader or into the buffer.
readLoopErrSend ==
  /\ rl.pc = "errsend"
  /\ IF errchClosed
     THEN /\ rl' = [rl EXCEPT !.pc = "panic"]
          /\ gs' = [q \in Procs |-> [gs[q] EXCEPT !.pc = "dead"]]
          /\ errch' = errch
     ELSE /\ rl' = [rl EXCEPT !.pc = "exit"]
          /\ IF Parked # {}
             THEN /\ \E q \in Parked :
                       gs' = [gs EXCEPT ![q] = ReadFrameFail(@, rl.err)]
                  /\ errch' = errch
             ELSE /\ errch' = Append(errch, rl.err)
                  /\ gs' = gs
  /\ UNCHANGED <<auxVars, server, readTimeout, closed, lck, framer, framerClosed,
                 errchClosed, bf, wire, netClosed, script, prog, dequeued,
                 delivered, closeRet>>

\* ReleaseFrame(fr); return, after the error was sent.
readLoopReturn ==
  /\ rl.pc = "exit"
  /\ rl' = [rl EXCEPT !.pc = "done"]
  /\ readLoopExit
  /\ UNCHANGED <<auxVars, server, readTimeout, closed, lck, framer, errch,
                 errchClosed, bf, wire, netClosed, script, prog, dequeued,
                 delivered, closeRet>>

\* ------------------------------------------------------------ mustClose

\* mustClose that forgets to set conn.closed.
mustCloseLock_NoFlag(p) ==
  /\ gs[p].pc = "mc_lock"
  /\ lck = 0
  /\ LET r == IF closed
              THEN AfterMustClose(gs[p], "EOF")
              ELSE [gs[p] EXCEPT !.pc = "mc_errch", !.closer = TRUE]
     IN  /\ gs' = [gs EXCEPT ![p] = r]
         /\ closeRet' = CloseRetAfter(r)
  /\ closed' = closed
  /\ UNCHANGED <<auxVars, server, readTimeout, lck, framer, framerClosed, errch,
                 errchClosed, bf, wire, netClosed, script, rl, prog,
                 dequeued, delivered>>

\* conn.lck.Lock(); if conn.closed: return EOF; conn.closed = true; Unlock.
mustCloseLock(p) ==
  /\ gs[p].pc = "mc_lock"
  /\ lck = 0
  /\ LET r == IF closed
              THEN AfterMustClose(gs[p], "EOF")
              ELSE [gs[p] EXCEPT !.pc = "mc_errch", !.closer = TRUE]
     IN  /\ gs' = [gs EXCEPT ![p] = r]
         /\ closeRet' = CloseRetAfter(r)
  /\ closed' = TRUE
  /\ UNCHANGED <<auxVars, server, readTimeout, lck, framer, framerClosed, errch,
                 errchClosed, bf, wire, netClosed, script, rl, prog,
                 dequeued, delivered>>

\* mustClose that closes conn.errch without any parked reader noticing.
mustCloseErrch_NoWake(p) ==
  /\ gs[p].pc = "mc_errch"
  /\ wire' = wire \o bf
  /\ bf' = <<>>
  /\ errchClosed' = TRUE
  /\ gs' = [gs EXCEPT ![p] = [@ EXCEPT !.pc = IF gs[p].wait THEN "mc_select"
                                               ELSE "mc_netclose"]]
  /\ UNCHANGED <<auxVars, server, readTimeout, closed, lck, framer, framerClosed,
                 errch, netClosed, script, rl, prog, dequeued, delivered,
                 closeRet>>

\* mustClose that skips its wait loop.
mustCloseErrch_NoWait(p) ==
  /\ gs[p].pc = "mc_errch"
  /\ wire' = wire \o bf
  /\ bf' = <<>>
  /\ errchClosed' = TRUE
  /\ gs' = [q \in Procs |->
              IF q = p
              THEN [gs[p] EXCEPT !.pc = "mc_netclose"]
              ELSE IF q \in Parked
              THEN ReadFrameFail([gs[q] EXCEPT !.parkedAtErrchClose = TRUE],
                                 "EOF")
              ELSE gs[q]]
  /\ UNCHANGED <<auxVars, server, readTimeout, closed, lck, framer, framerClosed,
                 errch, netClosed, script, rl, prog, dequeued, delivered,
                 closeRet>>

\* conn.bf.Flush(); close(conn.errch): the readers parked in ReadFrame wake
\* with EOF.
mustCloseErrch(p) ==
  /\ gs[p].pc = "mc_errch"
  /\ wire' = wire \o bf
  /\ bf' = <<>>
  /\ errchClosed' = TRUE
  /\ gs' = [q \in Procs |->
              IF q = p
              THEN [gs[p] EXCEPT !.pc = IF gs[p].wait THEN "mc_select"
                                        ELSE "mc_netclose"]
              ELSE IF q \in Parked
              THEN ReadFrameFail([gs[q] EXCEPT !.parkedAtErrchClose = TRUE],
                                 "EOF")
              ELSE gs[q]]
  /\ UNCHANGED <<auxVars, server, readTimeout, closed, lck, framer, framerClosed,
                 errch, netClosed, script, rl, prog, dequeued, delivered,
                 closeRet>>

\* The wait loop's select: frames are received and released until a Close
\* frame, the channel's close or the 5 second timer.
mustCloseSelect(p) ==
  /\ gs[p].pc = "mc_select"
  /\ \/ /\ framer # <<>>
        /\ framer' = Tail(framer)
        /\ gs' = [gs EXCEPT ![p] =
                    IF IsClose(Head(framer))
                    THEN [@ EXCEPT !.pc = "mc_netclose", !.drainExit = "close"]
                    ELSE @]
     \/ /\ framer = <<>> /\ framerClosed
        /\ gs' = [gs EXCEPT ![p] =
                    [@ EXCEPT !.pc = "mc_netclose", !.drainExit = "closed"]]
        /\ framer' = framer
     \/ /\ gs' = [gs EXCEPT ![p] =
                    [@ EXCEPT !.pc = "mc_netclose", !.drainExit = "expire"]]
        /\ framer' = framer
  /\ UNCHANGED <<auxVars, server, readTimeout, closed, lck, framerClosed, errch,
                 errchClosed, bf, wire, netClosed, script, rl, prog,
                 dequeued, delivered, closeRet>>

\* mustClose that clears conn.closed again when it closes the transport.
mustCloseNet_Reopen(p) ==
  /\ gs[p].pc = "mc_netclose"
  /\ netClosed' = TRUE
  /\ closed' = FALSE
  /\ gs' = [gs EXCEPT ![p] = [@ EXCEPT !.pc = "mc_wait"]]
  /\ UNCHANGED <<auxVars, server, readTimeout, lck, framer, framerClosed,
                 errch, errchClosed, bf, wire, script, rl, prog, dequeued,
                 delivered, closeRet>>

\* err := conn.c.Close()
mustCloseNet(p) ==
  /\ gs[p].pc = "mc_netclose"
  /\ netClosed' = TRUE
  /\ gs' = [gs EXCEPT ![p] = [@ EXCEPT !.pc = "mc_wait"]]
  /\ UNCHANGED <<auxVars, server, readTimeout, closed, lck, framer, framerClosed,
                 errch, errchClosed, bf, wire, script, rl, prog, dequeued,
                 delivered, closeRet>>

\* conn.wg.Wait(): returns once readLoop has returned; return err.
mustCloseWait(p) ==
  /\ gs[p].pc = "mc_wait"
  /\ rl.pc = "done"
  /\ pool.rl # "read"
  /\ LET r == AfterMustClose(gs[p], "nil")
     IN  /\ gs' = [gs EXCEPT ![p] = r]
         /\ closeRet' = CloseRetAfter(r)
  /\ UNCHANGED <<auxVars, server, readTimeout, connVars, script, rl, prog,
                 dequeued, delivered>>

\* ------------------------------------------------------------- connPool

\* releaseConn(conn) in the hijack callback, after the handler and the
\* callback's conn.Close() have returned.
releaseConn ==
  /\ pool.hijack /\ ~pool.released /\ pool.gen = 1
  /\ prog[1] = <<>>
  /\ gs[1].pc = "idle" /\ gs[1].top = "CloseString"
  /\ pool' = [pool EXCEPT !.released = TRUE]
  /\ UNCHANGED <<connState, framePool, limit, locker,
               codec, users, upgrade, client, ops>>

\* The next request's hijack callback: acquireConn takes the Conn from the
\* pool and Resets it on the new transport, whose peer stays silent, and
\* conn.server is set. The new readLoop starts and blocks in its first read.
\* The request is taken to arrive once the previous readLoop has returned
\* and no reader is parked on the previous channels.
acquireConn ==
  /\ pool.released
  /\ rl.pc = "done" /\ Parked = {}
  /\ pool' = [pool EXCEPT !.released = FALSE, !.gen = 2, !.rl = "read"]
  /\ framer' = <<>> /\ framerClosed' = FALSE
  /\ errch' = <<>> /\ errchClosed' = FALSE
  /\ readTimeout' = TRUE
  /\ server' = TRUE
  /\ bf' = <<>> /\ wire' = <<>> /\ netClosed' = FALSE
  /\ script' = [frames |-> <<>>, eof |-> FALSE]
  /\ closed' = FALSE
  \* nothing has been decoded from, or received on, the new transport
  /\ rl' = [rl EXCEPT !.n = 0]
  /\ dequeued' = <<>> /\ delivered' = <<>>
  /\ UNCHANGED <<lck, gs, prog, closeRet, codec, users, upgrade, client,
                 ops, framePool, limit, locker>>

\* The readLoop started by Reset: its read fails once the new transport has
\* been closed, with an error that says so; it returns, closing conn.framer.
readLoopReset ==
  /\ pool.rl = "read"
  /\ netClosed
  /\ pool' = [pool EXCEPT !.rl = "done"]
  /\ framerClosed' = TRUE
  /\ gs' = [q \in Procs |->
              IF q \in Parked THEN ReadFrameFail(gs[q], "EOF") ELSE gs[q]]
  /\ UNCHANGED <<server, readTimeout, closed, lck, framer, errch, errchClosed,
                 bf, wire, netClosed, script, rl, prog, dequeued, delivered,
                 closeRet, codec, users, upgrade, client, ops, framePool,
                 limit, locker>>

\* ------------------------------------------------------- specification

Caller(p) ==
  \/ write(p)
  \/ SendCode(p)
  \/ NextFrame(p)
  \/ ReadMessage(p)
  \/ CloseString(p)
  \/ CloseStringCheck(p)
  \/ WriteFrameLock(p)
  \/ WriteFrameWrite(p)
  \/ WriteFrameFlush(p)
  \/ ReadFrame(p)
  \/ ReadFrameTimeout(p)
  \/ ReadFrameCopy(p)
  \/ mustCloseLock(p)
  \/ mustCloseErrch(p)
  \/ mustCloseSelect(p)
  \/ mustCloseNet(p)
  \/ mustCloseWait(p)

Background ==
  \/ readLoop
  \/ readLoopSend
  \/ readLoopErrCheck
  \/ readLoopErrSend
  \/ readLoopReturn

Pool ==
  \/ releaseConn
  \/ acquireConn
  \/ readLoopReset

Next ==
  \/ \E p \in Procs : Caller(p)
  \/ Background
  \/ Pool

Spec == Init /\ [][Next]_vars

\* The Go scheduler runs every goroutine that can take a step: each caller
\* and the readLoop goroutine are weakly fair.
FairSpec ==
  /\ Spec
  /\ \A p \in Procs : WF_vars(Caller(p))
  /\ WF_vars(Background)

\* ------------------------------------------------------------ properties

\* The chunks one WriteFrame of fr by goroutine w puts on the transport.
Chunks(w, fr) ==
  [i \in 1..Len(WriteTo(fr)) |-> [w |-> w, part |-> WriteTo(fr)[i], fr |-> fr]]

\* s is a concatenation of whole frames, the last of which may still be in
\* the hands of its writer.
RECURSIVE WholeFrames(_)
WholeFrames(s) ==
  IF s = <<>> THEN TRUE
  ELSE LET c == Chunks(s[1].w, s[1].fr)
       IN  IF Len(s) >= Len(c)
           THEN /\ SubSeq(s, 1, Len(c)) = c
                /\ WholeFrames(SubSeq(s, Len(c) + 1, Len(s)))
           ELSE /\ s = SubSeq(c, 1, Len(s))
                /\ gs[s[1].w].pc = "wf_write"
                /\ lck = s[1].w

\* C1: whatever goroutines write concurrently (WriteFrame under WriteMessage,
\* Write, SendCode, the Close frames and the automatic replies), the chunks
\* that reached the transport, followed by those still buffered, are a
\* concatenation of whole frames: op, mask key, status and payload of one
\* frame are never separated by a chunk of another frame.
C1_WholeFramesOnWire == WholeFrames(wire \o bf)

\* Two goroutines have each put a frame of several chunks on the transport.
C1_Witness ==
  \E i, j \in 1..Len(wire) :
    /\ wire[i].w # wire[j].w
    /\ wire[i].part = "b"
    /\ wire[j].part = "b"

\* The messages of the peer's stream: for each, the ids of its data frames
\* from the first one through the FIN frame, control frames left out.
RECURSIVE MessagesFrom(_, _, _)
MessagesFrom(frames, i, cur) ==
  IF i > Len(frames) THEN {}
  ELSE IF IsControl(frames[i]) THEN MessagesFrom(frames, i + 1, cur)
  ELSE IF IsFin(frames[i])
       THEN {Append(cur, i)} \cup MessagesFrom(frames, i + 1, <<>>)
       ELSE MessagesFrom(frames, i + 1, Append(cur, i))

Messages == MessagesFrom(script.frames, 1, <<>>)

\* The payload the peer put in frame i, before masking.
PayloadOf(i) ==
  LET fr == script.frames[i]
  IN  IF IsMasked(fr) THEN mask(fr.key, fr.b) ELSE fr.b

RECURSIVE Concat(_)
Concat(ids) ==
  IF ids = <<>> THEN <<>> ELSE PayloadOf(Head(ids)) \o Concat(Tail(ids))

\* C2: every ReadMessage that returned nil returned the payloads of all the
\* fragments of one message of the peer, concatenated in wire order, also
\* when several goroutines call ReadMessage at once.
C2_WholeMessage ==
  \A p \in Procs :
    (gs[p].pc = "idle" /\ gs[p].top = "ReadMessage" /\ gs[p].err = "nil")
      => \E m \in Messages : gs[p].ids = m /\ gs[p].b = Concat(m)

\* C3: no call that began after a Close had returned nil returns a frame,
\* a message or a nil error.
C3_NoSuccessAfterClose ==
  \A p \in Procs :
    (gs[p].pc = "idle" /\ gs[p].top # "none" /\ gs[p].after = "nil")
      => gs[p].err # "nil"

\* C4 as stated: a reader that was blocked in ReadFrame when another
\* goroutine called Close returns EOF.
C4_BlockedAtCloseCallEOF ==
  \A p \in Procs :
    (gs[p].parkedAtClose /\ gs[p].pc = "idle") => gs[p].err = "EOF"

\* C4 amended: once mustClose has closed conn.errch no reader is left parked
\* in ReadFrame, and a reader that was still parked at that moment leaves
\* ReadFrame with EOF, reads nothing more in that call, and EOF is what
\* NextFrame or ReadMessage returns.
C4_ParkedAtErrchCloseEOF ==
  /\ errchClosed => Parked = {}
  /\ \A p \in Procs :
       gs[p].parkedAtErrchClose =>
         /\ gs[p].pc \notin {"rf_select", "rf_parked", "rf_copy"}
         /\ gs[p].err = "EOF"

\* A ReadMessage that was parked when conn.errch was closed has returned EOF.
C4_Witness ==
  \E p \in Procs :
    /\ gs[p].parkedAtErrchClose
    /\ gs[p].parkedAtClose
    /\ gs[p].top = "ReadMessage"
    /\ gs[p].pc = "idle"
    /\ gs[p].err = "EOF"

\* C5: every Close call that has begun returns (or the process has ended in
\* a panic), whatever the peer sends.
C5_CloseReturns ==
  \A p \in Procs :
    (gs[p].top = "CloseString" /\ gs[p].pc # "idle")
      ~> (gs[p].pc \in {"idle", "dead"})

\* C6: every step of a Close or CloseString call that began after another
\* such call had returned leaves the connection's state and the transport
\* as they are, and the call returns EOF.
C6_LateCloseNoEffect ==
  [][\A p \in Procs :
       (gs[p].top = "CloseString" /\ gs[p].after # "none"
          /\ gs[p].pc # "idle" /\ gs'[p] # gs[p])
         => /\ UNCHANGED <<connVars, rl, dequeued, delivered>>
            /\ gs'[p].pc = "idle"
            /\ gs'[p].err = "EOF"]_vars

\* A late Close has returned EOF, the first one having returned nil.
C6_Witness ==
  \E p \in Procs :
    /\ gs[p].top = "CloseString"
    /\ gs[p].after = "nil"
    /\ gs[p].pc = "idle"
    /\ gs[p].err = "EOF"

\* The ids of the frames readLoop has decoded so far, in wire order.
Decoded ==
  SelectSeq([i \in 1..rl.n |-> i],
            LAMBDA i : ReadFromErr(script.frames[i]) = "nil")

Ids(frames) == [i \in 1..Len(frames) |-> frames[i].id]

\* C7 as stated: while the connection is open the frames returned by
\* ReadFrame, in the order the calls complete, are the decoded frames in
\* wire order.
C7_CompletionOrder ==
  ~closed => \E n \in 0..Len(Decoded) : delivered = SubSeq(Decoded, 1, n)

\* C7 amended: while the connection is open the frames received from
\* conn.framer, in the order the ReadFrame calls receive them, followed by
\* those still in the channel and the one readLoop is sending, are the
\* decoded frames in wire order: none is duplicated, skipped or reordered.
C7_DequeueOrder ==
  ~closed =>
    dequeued \o Ids(framer) \o (IF rl.pc = "send" THEN <<rl.fr.id>> ELSE <<>>)
      = Decoded

\* Two goroutines received frames 1 and 2 in wire order and the receiver of
\* frame 2 returned first.
C7_Witness ==
  /\ ~closed
  /\ Len(dequeued) >= 2
  /\ delivered # <<>>
  /\ delivered[1] = 2

CloseFramesOf(r) == SelectSeq(r.wrote, IsClose)

PongFramesOf(r) == SelectSeq(r.wrote, IsPong)

Plain(fr) == IF IsMasked(fr) THEN Unmask(fr).b ELSE fr.b

\* A caller is inside the WriteFrame of its Pong reply.
WritingPong(r) ==
  r.ctx = "Pong" /\ r.pc \in {"wf_lock", "wf_write", "wf_flush"}

C12_MaskedByRole ==
  \A i \in 1..Len(wire) : IsMasked(wire[i].fr) = ~server

\* C13: a ReadMessage that returned a message returned the mode of the
\* message's first data frame.
C13_ModeOfFirstFrame ==
  \A p \in Procs :
    (gs[p].top = "ReadMessage" /\ gs[p].pc = "idle" /\ gs[p].err = "nil")
      => gs[p].mode = Mode(script.frames[gs[p].ids[1]])

\* C20: no ReadMessage appends, after the first frame of the message it
\* assembles, the payload of a frame with opcode Text or Binary.
C20_NoDataFrameInsideMessage ==
  \A p \in Procs :
    gs[p].top = "ReadMessage" =>
      \A i \in 2..Len(gs[p].ids) :
        script.frames[gs[p].ids[i]].code \notin {CodeText, CodeBinary}

\* ------------------------------------------------- the frame codec, bytes

\* The Conn and its callers at rest, for the specifications of the other
\* parts of the package.
NoConn ==
  /\ server = FALSE
  /\ readTimeout = FALSE
  /\ closed = FALSE
  /\ lck = 0
  /\ framer = <<>>
  /\ framerClosed = FALSE
  /\ errch = <<>>
  /\ errchClosed = FALSE
  /\ bf = <<>>
  /\ wire = <<>>
  /\ netClosed = FALSE
  /\ script = [frames |-> <<>>, eof |-> FALSE]
  /\ rl = [pc |-> "read", n |-> 0, fr |-> NoFrame, err |-> "nil"]
  /\ gs = [p \in Procs |-> Idle]
  /\ prog = [p \in Procs |-> <<>>]
  /\ dequeued = <<>>
  /\ delivered = <<>>
  /\ closeRet = "none"
  /\ pool = Unused

\* Frame.max of a pooled Frame, and the limit a Conn gives its frames.
maxPayloadSize == 4096
DefaultPayloadSize == 1048576

\* setPayloadLen: the largest length that fits the second header byte, the
\* marker of a 16 bit length, the largest 16 bit length, the marker of a
\* 64 bit length.
MaxLen7 == 125
Len16 == 126
MaxLen16 == 65535
Len64 == 127

\* A Frame as the codec sees it: op[0] (FIN, RSV1-3, opcode), the mask bit
\* of op[1], the mask key, the status, the payload.
CodecFrame(fin, rsv, code, masked, key, status, b) ==
  [fin |-> fin, rsv |-> rsv, code |-> code, masked |-> masked,
   key |-> IF masked THEN key ELSE ZeroKey, status |-> status, b |-> b]

BE16(n) == <<n \div 256, n % 256>>

\* binary.BigEndian.PutUint64 for the lengths of the model, below 2^31.
BE64(n) ==
  <<0, 0, 0, 0, (n \div 16777216) % 256, (n \div 65536) % 256,
    (n \div 256) % 256, n % 256>>

\* setPayloadLen: the length bits of op[1] and the extended length bytes.
setPayloadLen(fr) ==
  LET n == Len(fr.b) + (IF hasStatus(fr) THEN 2 ELSE 0)
  IN  IF n > MaxLen16 THEN [len7 |-> Len64, ext |-> BE64(n)]
      ELSE IF n > MaxLen7 THEN [len7 |-> Len16, ext |-> BE16(n)]
      ELSE [len7 |-> n, ext |-> <<>>]

\* Frame.WriteTo: the bytes written: op[:n+2], the mask key if the mask bit
\* is set, the status if there is one, the payload.
FrameBytes(fr) ==
  LET l == setPayloadLen(fr)
  IN  <<(IF fr.fin THEN 128 ELSE 0) + (fr.rsv * 16) + fr.code,
        (IF fr.masked THEN 128 ELSE 0) + l.len7>>
      \o l.ext
      \o (IF fr.masked THEN fr.key ELSE <<>>)
      \o (IF hasStatus(fr) THEN BE16(fr.status) ELSE <<>>)
      \o fr.b

\* mustRead: the number of extended length bytes.
mustRead(len7) ==
  IF len7 = Len64 THEN 8 ELSE IF len7 = Len16 THEN 2 ELSE 0

\* br.Read(buf[:k]) at offset pos of s: at most k bytes, fewer at the end.
Take(s, pos, k) ==
  SubSeq(s, pos + 1, IF pos + k <= Len(s) THEN pos + k ELSE Len(s))

\* Frame.Len after `fr.op[2] &= 127`: the top bit of the first extended
\* length byte is gone, for 16 bit lengths as for 64 bit ones. A 64 bit
\* length whose upper four bytes are not zero is beyond every limit of the
\* model.
LenAfterHotPath(len7, ext) ==
  IF len7 = Len16 THEN ((ext[1] % 128) * 256) + ext[2]
  ELSE IF len7 = Len64
  THEN (IF (ext[1] % 128) + ext[2] + ext[3] + ext[4] > 0 \/ ext[5] >= 128
        THEN 2147483647
        ELSE (ext[5] * 16777216) + (ext[6] * 65536) + (ext[7] * 256) + ext[8])
  ELSE len7

\* The error of br.Read(buf[:k]) at offset pos of s: EOF at the end.
ReadErr(s, pos, k) == IF k > 0 /\ pos >= Len(s) THEN "EOF" ELSE "nil"

\* A status of two bytes, or of the bytes that could be read.
StatusOf(st) ==
  IF Len(st) = 2 THEN (st[1] * 256) + st[2]
  ELSE IF Len(st) = 1 THEN st[1] * 256 ELSE 0

\* Frame.readFrom on a Frame fresh from Reset, reading the bytes s with
\* limit max (Frame.max, 0 for none): the error and the Frame's fields
\* afterwards. A Close frame of declared length 1 makes `nn -= 2` wrap
\* around and fr.b[:nn] panic.
readFrom(s, max) ==
  LET none  == CodecFrame(FALSE, 0, CodeContinuation, FALSE, ZeroKey, 0, <<>>)
      op    == Take(s, 0, 2)
      hdr   == IF Len(op) = 2
               THEN [none EXCEPT !.fin = op[1] >= 128,
                                 !.rsv = (op[1] \div 16) % 8,
                                 !.code = op[1] % 16,
                                 !.masked = op[2] >= 128]
               ELSE none
      len7  == IF Len(op) = 2 THEN op[2] % 128 ELSE 0
      m     == mustRead(len7)
      ext   == Take(s, 2, m)
      key   == Take(s, 2 + m, 4)
      pos   == 2 + m + (IF hdr.masked THEN 4 ELSE 0)
      nn    == LenAfterHotPath(len7, ext)
      isClose == hdr.code = CodeClose
      st    == IF isClose THEN Take(s, pos, 2) ELSE <<>>
      stErr == IF isClose THEN ReadErr(s, pos, 2) ELSE "nil"
      nb    == IF isClose THEN nn - 2 ELSE nn
      bpos  == pos + Len(st)
      b     == Take(s, bpos, nb)
      keyed == IF hdr.masked /\ Len(key) = 4 THEN [hdr EXCEPT !.key = key]
               ELSE hdr
  IN  IF Len(op) = 0 THEN [err |-> "EOF", fr |-> none]
      ELSE IF Len(op) < 2 THEN [err |-> "errReadingHeader", fr |-> none]
      ELSE IF Len(ext) < m THEN [err |-> "errReadingLen", fr |-> hdr]
      ELSE IF hdr.masked /\ Len(key) < 4
      THEN [err |-> "errReadingMask", fr |-> hdr]
      ELSE IF max > 0 /\ nn > max
      THEN [err |-> "Max b size exceeded", fr |-> keyed]
      ELSE IF nn = 0 THEN [err |-> "nil", fr |-> keyed]
      ELSE IF stErr # "nil"
      THEN [err |-> stErr, fr |-> keyed]
      ELSE IF nb < 0
      THEN [err |-> "panic", fr |-> [keyed EXCEPT !.status = StatusOf(st)]]
      ELSE IF nb = 0
      THEN [err |-> "nil", fr |-> [keyed EXCEPT !.status = StatusOf(st)]]
      ELSE IF ReadErr(s, bpos, nb) # "nil"
      THEN [err |-> "EOF", fr |-> [keyed EXCEPT !.status = StatusOf(st)]]
      ELSE [err |-> "nil",
            fr |-> [keyed EXCEPT !.status = StatusOf(st), !.b = b]]

\* Payloads of the given length, and the lengths the frames of the codec
\* specification carry: around the limits of the three length encodings.
Fill(n) == [i \in 1..n |-> (i * 7) % 256]

BigLen == 32768

DataLens == {0, 1, MaxLen7, Len16}
BigLens == {BigLen - 1, BigLen, MaxLen16 + 1}
ControlLens == {0, MaxLen7 - 2}

\* A frame of the codec specification without its payload bytes, which
\* Fill gives back from their number n.
Describe(fr) ==
  [fin |-> fr.fin, rsv |-> fr.rsv, code |-> fr.code, masked |-> fr.masked,
   key |-> fr.key, status |-> fr.status, n |-> Len(fr.b)]

FrameOf(d) ==
  CodecFrame(d.fin, d.rsv, d.code, d.masked, d.key, d.status, Fill(d.n))

\* The frames written: data frames with every FIN, RSV and mask setting,
\* control frames within their size limit, Close frames with a status.
CodecFrames ==
  { [fin |-> fin, rsv |-> rsv, code |-> code, masked |-> masked,
     key |-> IF masked THEN <<1, 2, 3, 4>> ELSE ZeroKey, status |-> 0,
     n |-> n] :
      fin \in BOOLEAN, rsv \in {0, 5},
      code \in {CodeContinuation, CodeText, CodeBinary},
      masked \in BOOLEAN, n \in DataLens }
  \cup
  { [fin |-> TRUE, rsv |-> 0, code |-> code, masked |-> masked,
     key |-> IF masked THEN <<9, 8, 7, 6>> ELSE ZeroKey,
     status |-> IF code = CodeClose THEN StatusNone ELSE 0, n |-> n] :
      code \in {CodePing, CodePong, CodeClose}, masked \in BOOLEAN,
      n \in ControlLens }
  \cup
  { [fin |-> TRUE, rsv |-> 0, code |-> CodeBinary, masked |-> FALSE,
     key |-> ZeroKey, status |-> 0, n |-> n] : n \in BigLens }

\* Close frames whose body is a single byte: no status, one byte of payload.
BadCloseFrames ==
  { [fin |-> TRUE, rsv |-> 0, code |-> CodeClose, masked |-> masked,
     key |-> IF masked THEN <<9, 8, 7, 6>> ELSE ZeroKey, status |-> 0,
     n |-> 1] : masked \in BOOLEAN }

\* Frame.Len on a Frame that readFrom filled from the bytes s.
LenOf(s) ==
  LET len7 == s[2] % 128
  IN  LenAfterHotPath(len7, Take(s, 2, mustRead(len7)))

\* A frame to write and the limit of the Frame that reads it back; the
\* other parts of the package are at rest.
CodecInit ==
  /\ NoConn
  /\ users = Unused
  /\ upgrade = Unused
  /\ client = Unused
  /\ ops = Unused
  /\ framePool = Unused /\ limit = Unused /\ locker = Unused
  /\ \E d \in CodecFrames \cup BadCloseFrames,
        max \in {maxPayloadSize, DefaultPayloadSize} :
       codec = [pc |-> "frame", f |-> d, max |-> max, size |-> 0,
                err |-> "nil", out |-> d, same |-> TRUE, len |-> 0]

\* fr.WriteTo(wr) on a buffer: the number of bytes written.
CodecWriteTo ==
  /\ codec.pc = "frame"
  /\ codec' = [codec EXCEPT !.pc = "written",
                            !.size = Len(FrameBytes(FrameOf(codec.f)))]
  /\ UNCHANGED <<connState, framePool, limit, locker,
               pool, ops, users, upgrade, client>>

\* fr2.SetPayloadSize(max); fr2.ReadFrom(rd) on the bytes written: the
\* error, the Frame read, and whether it equals the one written.
CodecReadFrom ==
  /\ codec.pc = "written"
  /\ LET s == FrameBytes(FrameOf(codec.f))
         r == readFrom(s, codec.max)
     IN  codec' = [codec EXCEPT !.pc = "read", !.err = r.err,
                                !.out = Describe(r.fr),
                                !.same = (r.fr = FrameOf(codec.f)),
                                !.len = LenOf(s)]
  /\ UNCHANGED <<connState, framePool, limit, locker,
               pool, ops, users, upgrade, client>>

CodecNext ==
  \/ CodecWriteTo
  \/ CodecReadFrom

CodecSpec == CodecInit /\ [][CodecNext]_vars

\* C14: a frame whose length is within the limit is read back from the
\* bytes WriteTo produced without error and with the same FIN, RSV, opcode,
\* mask bit, mask key, payload and status.
C14_RoundTrip ==
  (codec.pc = "read"
     /\ codec.f.n + (IF hasStatus(codec.f) THEN 2 ELSE 0) <= codec.max)
    => codec.err = "nil" /\ codec.same /\ codec.out = codec.f

\* ---------------------------------------------------------- user values

\* Keys and values of conn.userValues, nil for a missing key, and the
\* number of calls each goroutine makes.
UserKeys == {"custom", "other"}
UserVals == {"v1", "v2"}
MaxUserCalls == 2

\* Two accesses to the map conflict when they overlap and one is a write.
Conflicts(p, writes) ==
  {q \in Procs \ {p} :
     \/ users.pc[q] = "writing"
     \/ writes /\ users.pc[q] = "reading"}

\* conn.userValues after Reset, no goroutine inside UserValue or
\* SetUserValue; the other parts of the package at rest.
UserInit ==
  /\ NoConn
  /\ codec = Unused
  /\ upgrade = Unused
  /\ client = Unused
  /\ ops = Unused
  /\ framePool = Unused /\ limit = Unused /\ locker = Unused
  /\ users = [pc |-> [p \in Procs |-> "idle"],
              key |-> [p \in Procs |-> "custom"],
              val |-> [p \in Procs |-> "nil"],
              got |-> [p \in Procs |-> "nil"],
              raced |-> [p \in Procs |-> FALSE],
              calls |-> [p \in Procs |-> 0],
              map |-> [k \in UserKeys |-> "nil"],
              fatal |-> FALSE]

\* A goroutine enters an access to the map: no lock is taken, and the
\* accesses in progress that conflict with it race with it.
EnterMap(p, k, v, writes) ==
  /\ ~users.fatal
  /\ users.pc[p] = "idle"
  /\ users.calls[p] < MaxUserCalls
  /\ users' = [users EXCEPT
       !.pc[p] = IF writes THEN "writing" ELSE "reading",
       !.key[p] = k,
       !.val[p] = v,
       !.calls[p] = @ + 1,
       !.raced = [q \in Procs |->
                    IF q = p THEN Conflicts(p, writes) # {}
                    ELSE users.raced[q] \/ q \in Conflicts(p, writes)]]
  /\ UNCHANGED <<connState, framePool, limit, locker,
               pool, ops, codec, upgrade, client>>

\* UserValue(key): return conn.userValues[key], the map read begins.
UserValue(p) ==
  \E k \in UserKeys : EnterMap(p, k, "nil", FALSE)

\* The map read ends: the value of the key, or any value after a race.
UserValueReturn(p) ==
  /\ ~users.fatal
  /\ users.pc[p] = "reading"
  /\ \E v \in UserVals \cup {"nil"} :
       /\ users.raced[p] \/ v = users.map[users.key[p]]
       /\ users' = [users EXCEPT !.pc[p] = "idle", !.got[p] = v,
                                 !.raced[p] = FALSE]
  /\ UNCHANGED <<connState, framePool, limit, locker,
               pool, ops, codec, upgrade, client>>

\* SetUserValue(key, value): conn.userValues[key] = value, the map write
\* begins.
SetUserValue(p) ==
  \E k \in UserKeys, v \in UserVals : EnterMap(p, k, v, TRUE)

\* The map write ends.
SetUserValueReturn(p) ==
  /\ ~users.fatal
  /\ users.pc[p] = "writing"
  /\ users' = [users EXCEPT !.pc[p] = "idle",
                            !.map[users.key[p]] = users.val[p],
                            !.raced[p] = FALSE]
  /\ UNCHANGED <<connState, framePool, limit, locker,
               pool, ops, codec, upgrade, client>>

\* The runtime notices a racing map access and ends the process (fatal
\* error: concurrent map read and map write, concurrent map writes).
MapFatal ==
  /\ ~users.fatal
  /\ \E p \in Procs : users.raced[p]
  /\ users' = [users EXCEPT !.fatal = TRUE]
  /\ UNCHANGED <<connState, framePool, limit, locker,
               pool, ops, codec, upgrade, client>>

UserNext ==
  \/ \E p \in Procs : \/ UserValue(p)
                      \/ UserValueReturn(p)
                      \/ SetUserValue(p)
                      \/ SetUserValueReturn(p)
  \/ MapFatal

UserSpec == UserInit /\ [][UserNext]_vars

\* C15: no access of a goroutine to conn.userValues overlaps a write of
\* another goroutine to it, and the runtime never ends the process for one.
C15_NoMapRace ==
  /\ ~users.fatal
  /\ \A p \in Procs : ~users.raced[p]

\* ---------------------------------------------------- the server upgrade

\* Header values are sequences of characters.
websocketString == <<"W", "e", "b", "S", "o", "c", "k", "e", "t">>
commaString == <<",">>
supportedVersions == << <<"1", "3">> >>

\* The ASCII letters of the model in lower case.
Lower(c) ==
  CASE c = "W" -> "w" [] c = "E" -> "e" [] c = "B" -> "b" [] c = "S" -> "s"
    [] c = "O" -> "o" [] c = "C" -> "c" [] c = "K" -> "k" [] c = "T" -> "t"
    [] c = "H" -> "h" [] c = "X" -> "x" [] OTHER -> c

\* equalsFold(a, b): equality ignoring ASCII case.
equalsFold(a, b) ==
  /\ Len(a) = Len(b)
  /\ \A i \in 1..Len(a) : Lower(a[i]) = Lower(b[i])

\* bytes.Contains(s, sub)
Contains(s, sub) ==
  \E i \in 0..(Len(s) - Len(sub)) : SubSeq(s, i + 1, i + Len(sub)) = sub

\* bytes.Split(s, commaString): the pieces between the commas, kept as they
\* are; one empty piece for an empty s.
RECURSIVE Split(_)
Split(s) ==
  IF \E i \in 1..Len(s) : s[i] = ","
  THEN LET i == CHOOSE i \in 1..Len(s) :
                  s[i] = "," /\ \A j \in 1..(i - 1) : s[j] # ","
       IN  <<SubSeq(s, 1, i - 1)>> \o Split(SubSeq(s, i + 1, Len(s)))
  ELSE <<s>>

\* Upgrader.Origin left empty.
NoOrigin == [scheme |-> <<>>, host |-> <<>>]

\* prepareOrigin: scheme://host of the configured origin.
prepareOrigin(uri) == uri.scheme \o <<":", "/", "/">> \o uri.host

\* selectProtocol(protos, accepted)
selectProtocol(protos, accepted) ==
  IF Len(protos) = 0 THEN <<>>
  ELSE IF \E i \in 1..Len(protos), j \in 1..Len(accepted) :
            protos[i] = accepted[j]
  THEN LET i == CHOOSE i \in 1..Len(protos) :
                  /\ \E j \in 1..Len(accepted) : protos[i] = accepted[j]
                  /\ \A k \in 1..(i - 1) :
                       \A j \in 1..Len(accepted) : protos[k] # accepted[j]
       IN  protos[i]
  ELSE protos[1]

\* The response of a RequestCtx nobody has written to: fasthttp answers
\* 200 with no body.
NoResponse == [status |-> "StatusOK", protocol |-> <<>>, hijacked |-> FALSE]

\* Upgrader.Upgrade(ctx): the response it leaves in ctx, and whether it
\* hijacks the connection for a Conn.
UpgradeResponse(upgr, req) ==
  IF req.method # "GET"
  THEN [NoResponse EXCEPT !.status = "StatusBadRequest"]
  ELSE IF upgr.Origin # NoOrigin
          /\ ~equalsFold(prepareOrigin(upgr.Origin), req.origin)
  THEN [NoResponse EXCEPT !.status = "StatusForbidden"]
  ELSE IF ~req.connectionUpgrade THEN NoResponse
  ELSE IF ~equalsFold(req.upgrade, websocketString) THEN NoResponse
  ELSE IF ~\E i \in 1..Len(supportedVersions) :
              Contains(supportedVersions[i], req.version)
  THEN [NoResponse EXCEPT !.status = "StatusBadRequest"]
  ELSE IF upgr.UpgradeHandler = "false" THEN NoResponse
  ELSE [status |-> "StatusSwitchingProtocols",
        protocol |-> selectProtocol(Split(req.protocol), upgr.Protocols),
        hijacked |-> TRUE]

\* The requests and the Upgrader settings of the model.
Methods == {"GET", "POST"}
UpgradeHeaders ==
  {<<>>, <<"w", "e", "b", "s", "o", "c", "k", "e", "t">>, websocketString,
   <<"h", "2", "c">>}
VersionHeaders ==
  {<<>>, <<"1">>, <<"3">>, <<"1", "3">>, <<"8">>, <<"1", "3", "0">>}
OriginHeaders ==
  {<<>>, <<"h", ":", "/", "/", "x">>, <<"H", ":", "/", "/", "X">>,
   <<"h", ":", "/", "/", "y">>}
ProtocolHeaders ==
  {<<>>, <<"a">>, <<"a", ",", "b">>, <<"a", ",", " ", "b">>,
   <<"b", ",", "a">>}
Upgraders ==
  [Origin : {NoOrigin, [scheme |-> <<"h">>, host |-> <<"x">>]},
   UpgradeHandler : {"nil", "true", "false"},
   Protocols : {<<>>, << <<"b">> >>, << <<"b">>, <<"a">> >>}]
Requests ==
  [method : Methods, origin : OriginHeaders, connectionUpgrade : BOOLEAN,
   upgrade : UpgradeHeaders, version : VersionHeaders,
   protocol : ProtocolHeaders]

UpgradeInit ==
  /\ NoConn
  /\ codec = Unused /\ users = Unused /\ client = Unused /\ ops = Unused
  /\ framePool = Unused /\ limit = Unused /\ locker = Unused
  /\ \E u \in Upgraders, r \in Requests :
       upgrade = [pc |-> "request", upgr |-> u, req |-> r,
                  res |-> NoResponse, conn |-> "none", server |-> FALSE]

\* Upgrader.Upgrade(ctx) up to its return.
Upgrade ==
  /\ upgrade.pc = "request"
  /\ upgrade' = [upgrade EXCEPT
       !.pc = "responded",
       !.res = UpgradeResponse(upgrade.upgr, upgrade.req)]
  /\ UNCHANGED <<connState, framePool, limit, locker,
               pool, ops, codec, users, client>>

\* The hijack callback up to the call of upgr.Handler(conn).
Hijack ==
  /\ upgrade.pc = "responded"
  /\ upgrade.res.hijacked
  /\ upgrade' = [upgrade EXCEPT
       !.pc = "handler", !.conn = "open", !.server = TRUE]
  /\ UNCHANGED <<connState, framePool, limit, locker,
               pool, ops, codec, users, client>>

\* The handler returns: conn.Close() and releaseConn(conn).
HijackReturn ==
  /\ upgrade.pc = "handler"
  /\ upgrade' = [upgrade EXCEPT !.pc = "released", !.conn = "closed"]
  /\ UNCHANGED <<connState, framePool, limit, locker,
               pool, ops, codec, users, client>>

UpgradeNext == Upgrade \/ Hijack \/ HijackReturn

UpgradeSpec == UpgradeInit /\ [][UpgradeNext]_vars

\* The conditions under which a request is to be accepted.
Answered == upgrade.pc \in {"responded", "handler", "released"}
OriginMatches ==
  \/ upgrade.upgr.Origin = NoOrigin
  \/ equalsFold(prepareOrigin(upgrade.upgr.Origin), upgrade.req.origin)
Acceptable ==
  /\ upgrade.req.method = "GET"
  /\ upgrade.req.connectionUpgrade
  /\ equalsFold(upgrade.req.upgrade, websocketString)
  /\ upgrade.req.version = <<"1", "3">>
  /\ OriginMatches
  /\ upgrade.upgr.UpgradeHandler # "false"

\* C16: a request is answered with 101 and gets a server-role Conn exactly
\* when it is a GET with Connection: Upgrade, Upgrade: websocket, version 13,
\* a matching Origin and an UpgradeHandler that does not refuse; every other
\* request is answered with 400 or 403 and gets no Conn.
C16_UpgradeIffAcceptable ==
  Answered =>
    IF Acceptable
    THEN /\ upgrade.res.status = "StatusSwitchingProtocols"
         /\ upgrade.res.hijacked
         /\ upgrade.pc = "handler" => upgrade.server
    ELSE /\ upgrade.res.status \in {"StatusBadRequest", "StatusForbidden"}
         /\ ~upgrade.res.hijacked
         /\ upgrade.conn = "none"

\* C17: a request answered with 101 Switching Protocols carries the version
\* header 13 and no other.
C17_UpgradedOnlyVersion13 ==
  (Answered /\ upgrade.res.status = "StatusSwitchingProtocols")
    => upgrade.req.version = <<"1", "3">>

\* The subprotocols a Sec-WebSocket-Protocol header offers: its
\* comma-separated entries without the spaces around them.
RECURSIVE Trim(_)
Trim(s) ==
  IF s # <<>> /\ Head(s) = " " THEN Trim(Tail(s))
  ELSE IF s # <<>> /\ s[Len(s)] = " " THEN Trim(SubSeq(s, 1, Len(s) - 1))
  ELSE s
Offered(h) ==
  IF h = <<>> THEN <<>> ELSE [i \in 1..Len(Split(h)) |-> Trim(Split(h)[i])]
InList(x, list) == \E j \in 1..Len(list) : list[j] = x
FirstAccepted(offered, accepted) ==
  IF offered = <<>> THEN <<>>
  ELSE IF \E i \in 1..Len(offered) : InList(offered[i], accepted)
  THEN offered[CHOOSE i \in 1..Len(offered) :
                 /\ InList(offered[i], accepted)
                 /\ \A k \in 1..(i - 1) : ~InList(offered[k], accepted)]
  ELSE offered[1]

\* C19: the subprotocol of a 101 response is the first entry the client
\* offered that the server accepts, the client's first offer when none is
\* accepted, and absent when the client offered none.
C19_FirstOfferedAccepted ==
  (Answered /\ upgrade.res.status = "StatusSwitchingProtocols")
    => upgrade.res.protocol =
         FirstAccepted(Offered(upgrade.req.protocol), upgrade.upgr.Protocols)

\* --------------------------------------------------- the client handshake

\* What the server may answer: the status, the Upgrade header and the
\* outcome of reading the response from the transport.
Statuses ==
  {"StatusSwitchingProtocols", "StatusOK", "StatusBadRequest",
   "StatusForbidden"}
ReadErrs == {"nil", "EOF", "i/o timeout"}
Responses == [status : Statuses, upgrade : UpgradeHeaders, readErr : ReadErrs]
Schemes == {"ws", "wss"}

ClientInit ==
  /\ NoConn
  /\ codec = Unused /\ users = Unused /\ upgrade = Unused /\ ops = Unused
  /\ framePool = Unused /\ limit = Unused /\ locker = Unused
  /\ \E r \in Responses, sch \in Schemes, de \in {"nil", "connection refused"} :
       client = [pc |-> "dial", scheme |-> sch, dialErr |-> de, res |-> r,
                 err |-> "nil", conn |-> "none", server |-> FALSE,
                 transport |-> "none"]

\* UpgradeAsClient ignores the status of the response.
UpgradeAsClientErr_AnyStatus(res) ==
  IF res.readErr # "nil" THEN res.readErr
  ELSE IF ~equalsFold(res.upgrade, websocketString)
  THEN "ErrCannotUpgrade"
  ELSE "nil"

\* The error UpgradeAsClient returns for a response.
UpgradeAsClientErr(res) ==
  IF res.readErr # "nil" THEN res.readErr
  ELSE IF \/ res.status # "StatusSwitchingProtocols"
          \/ ~equalsFold(res.upgrade, websocketString)
  THEN "ErrCannotUpgrade"
  ELSE "nil"

\* dial: net.Dial for ws, tls.Dial otherwise.
dialConnect ==
  /\ client.pc = "dial"
  /\ client' = IF client.dialErr = "nil"
               THEN [client EXCEPT !.pc = "connected", !.transport = "open"]
               ELSE [client EXCEPT !.pc = "returned", !.err = client.dialErr]
  /\ UNCHANGED <<connState, framePool, limit, locker,
               pool, ops, codec, users, upgrade>>

\* UpgradeAsClient: the request is written, the response read and checked.
UpgradeAsClient ==
  /\ client.pc = "connected"
  /\ client' = [client EXCEPT
       !.pc = "upgraded", !.err = UpgradeAsClientErr(client.res)]
  /\ UNCHANGED <<connState, framePool, limit, locker,
               pool, ops, codec, users, upgrade>>

\* client: a Conn for the transport when the upgrade succeeded.
clientConn ==
  /\ client.pc = "upgraded"
  /\ client' = IF client.err = "nil"
               THEN [client EXCEPT
                       !.pc = "client", !.conn = "open", !.server = FALSE]
               ELSE [client EXCEPT !.pc = "client"]
  /\ UNCHANGED <<connState, framePool, limit, locker,
               pool, ops, codec, users, upgrade>>

\* dial after client: the transport is closed on error.
dialReturn ==
  /\ client.pc = "client"
  /\ client' = IF client.err # "nil"
               THEN [client EXCEPT !.pc = "returned", !.transport = "closed"]
               ELSE [client EXCEPT !.pc = "returned"]
  /\ UNCHANGED <<connState, framePool, limit, locker,
               pool, ops, codec, users, upgrade>>

ClientNext == dialConnect \/ UpgradeAsClient \/ clientConn \/ dialReturn

ClientSpec == ClientInit /\ [][ClientNext]_vars

ResponseUpgrades ==
  /\ client.res.readErr = "nil"
  /\ client.res.status = "StatusSwitchingProtocols"
  /\ equalsFold(client.res.upgrade, websocketString)

\* C18: once the transport is open, Dial returns a client-role Conn exactly
\* when the response was read, has status 101 and an Upgrade header equal to
\* websocket ignoring case; otherwise it returns no Conn, ErrCannotUpgrade or
\* the read error, and the transport is closed.
C18_ConnIffUpgraded ==
  (client.pc = "returned" /\ client.dialErr = "nil") =>
    IF ResponseUpgrades
    THEN /\ client.conn = "open" /\ ~client.server
         /\ client.err = "nil"
         /\ client.transport = "open"
    ELSE /\ client.conn = "none"
         /\ client.err = (IF client.res.readErr # "nil"
                          THEN client.res.readErr ELSE "ErrCannotUpgrade")
         /\ client.transport = "closed"

\* Dial returned a Conn for a response whose Upgrade header is in lower case.
C18_Witness ==
  /\ client.pc = "returned"
  /\ client.conn = "open"
  /\ client.res.upgrade = <<"w", "e", "b", "s", "o", "c", "k", "e", "t">>

\* ------------------------------------------- the Conn: protocol violations

\* A ReadMessage call of p has returned.
Returned(p) == gs[p].pc = "idle" /\ gs[p].top = "ReadMessage"

\* C21: a ReadMessage call that was handed a Ping, Pong or Close frame
\* without FIN returns errControlMustNotBeFragmented, whether or not it was
\* assembling a fragmented message.
C21_FragmentedControlFails ==
  \A p \in Procs :
    (Returned(p) /\ gs[p].fragControl)
      => gs[p].err = "errControlMustNotBeFragmented"

\* C22: the payload of a frame whose mask bit does not fit the role of the
\* Conn (clear for a server, set for a client) is never part of a message
\* that ReadMessage returns.
C22_MaskBitChecked ==
  \A p \in Procs :
    (Returned(p) /\ gs[p].err = "nil")
      => \A i \in 1..Len(gs[p].ids) :
           IsMasked(script.frames[gs[p].ids[i]]) = server

\* The Close status that goes with each terminal protocol violation.
ViolationStatus(e) ==
  CASE e = "Max b size exceeded" -> StatusTooBig
    [] e = "errStatusLen" -> StatusNotConsistent
    [] e = "errControlMustNotBeFragmented" -> StatusProtocolError
    [] e = "received frame between continuation frames. Got"
         -> StatusProtocolError
    [] OTHER -> 0

\* C23: when ReadMessage has returned a payload-too-big, status-length,
\* fragmented-control or frame-between-continuation error, the call has
\* written a Close frame with status 1009, 1007, 1002 or 1002.
C23_CloseSentForViolation ==
  \A p \in Procs :
    (Returned(p) /\ ViolationStatus(gs[p].err) > 0)
      => \E i \in 1..Len(gs[p].wrote) :
           /\ IsClose(gs[p].wrote[i])
           /\ gs[p].wrote[i].status = ViolationStatus(gs[p].err)

\* ------------------------------------------------ the Conn: closing races

\* C24: readLoop never executes its send of a read error on conn.errch
\* after close(conn.errch) has run.
C24_NoSendOnClosedErrch == rl.pc # "panic"

\* The goroutines in or after a Close or CloseString call.
Closers == {p \in Procs : gs[p].top = "CloseString"}

\* C25: of the Close and CloseString calls made on one Conn, one at most
\* writes a Close frame, one at most closes the transport, and one at most
\* returns something other than EOF.
C25_OneCloseAmongMany ==
  /\ Cardinality({p \in Closers : gs[p].wrote # <<>>}) <= 1
  /\ Cardinality({p \in Closers : gs[p].closer}) <= 1
  /\ Cardinality({p \in Closers : gs[p].pc = "idle" /\ gs[p].err # "EOF"}) <= 1

\* C26: when a reading call has been given readLoop's read error, or the end
\* of the peer's stream on a Conn nobody closed, no frame that readLoop
\* decoded before it is still waiting in conn.framer.
C26_FramesBeforeError ==
  \A p \in Procs :
    (/\ gs[p].top \in {"NextFrame", "ReadMessage"}
     /\ \/ gs[p].err = "Max b size exceeded"
        \/ gs[p].err = "EOF" /\ ~closed)
      => framer = <<>>

\* ------------------------------------------------ the Conn in the pool

\* conn.closed never goes from true to false.
C27_ClosedMonotonic == [][closed => closed']_vars

\* C27: conn.closed goes from true to false only when Reset gives the Conn
\* to a new session; no other operation clears it.
C27_ClosedUntilReset == [][(closed /\ ~closed') => pool.gen' # pool.gen]_vars

\* A closed Conn lies in the pool with its flag still set.
C27_Witness == pool.released /\ closed

\* C28: once the Conn has been Reset for a new session, nothing closes the
\* new session's error channel or transport or sets its closed flag: the
\* goroutines of the previous session are gone.
C28_NoStaleGoroutine ==
  pool.gen = 2 => ~closed /\ ~errchClosed /\ ~netClosed

\* ------------------------------------- the Conn with the in-flight counter

\* The earlier Conn: ReadFrame and WriteFrame work on the transport itself,
\* under the locks lbr and lbw, and count themselves in conn.count.

\* The calls a goroutine makes, in order.
OpsProgs ==
  { <<"WriteFrame">>, <<"ReadFrame">>, <<"CloseString">>,
    <<"WriteFrame", "CloseString">>, <<"ReadFrame", "CloseString">>,
    <<"CloseString", "WriteFrame">>, <<"CloseString", "ReadFrame">> }

\* Frames the peer has sent when the goroutines start.
OpsInbox == {0, 1}

OpsIdle == [pc |-> "idle", err |-> "nil"]

OpsInit ==
  /\ NoConn
  /\ codec = Unused /\ users = Unused /\ upgrade = Unused /\ client = Unused
  /\ framePool = Unused /\ limit = Unused /\ locker = Unused
  /\ \E pr \in [Procs -> OpsProgs], n \in OpsInbox :
       ops = [count |-> 0, lbw |-> 0, lbr |-> 0, closed |-> FALSE,
              c |-> "open", inbox |-> n, wire |-> <<>>,
              g |-> [p \in Procs |-> OpsIdle], prog |-> pr,
              \* conn.count when CloseString began its teardown, -1 before
              teardown |-> -1]

OpsCalls(p, op) ==
  /\ ops.g[p].pc = "idle"
  /\ ops.prog[p] # <<>>
  /\ Head(ops.prog[p]) = op

OpsStep(new) ==
  /\ ops' = new
  /\ UNCHANGED <<connState, framePool, limit, locker,
               codec, users, upgrade, client, pool>>

\* add(): atomic.AddInt32(&conn.count, 1)
add(o) == [o EXCEPT !.count = @ + 1]

\* done(): atomic.AddInt32(&conn.count, -1)
done(o) == [o EXCEPT !.count = @ - 1]

\* WriteFrame: conn.add() and the deferred done.
OpsWriteFrame(p) ==
  /\ OpsCalls(p, "WriteFrame")
  /\ OpsStep([add(ops) EXCEPT !.prog[p] = Tail(@),
                !.g[p] = [pc |-> "w_lock", err |-> "nil"]])

\* conn.lbw.Lock(); EOF on a closed Conn, else fr.WriteTo(conn.c).
OpsWriteFrameLocked(p) ==
  /\ ops.g[p].pc = "w_lock"
  /\ ops.lbw = 0
  /\ OpsStep(IF ops.closed
             THEN [ops EXCEPT !.lbw = p,
                     !.g[p] = [pc |-> "w_done", err |-> "EOF"]]
             ELSE [ops EXCEPT !.lbw = p, !.wire = Append(@, "data"),
                     !.g[p] = [pc |-> "w_done", err |-> "nil"]])

\* The deferred conn.lbw.Unlock() and conn.done().
OpsWriteFrameReturn(p) ==
  /\ ops.g[p].pc = "w_done"
  /\ OpsStep([done(ops) EXCEPT !.lbw = 0, !.g[p].pc = "idle"])

\* ReadFrame: conn.add() and the deferred done.
OpsReadFrame(p) ==
  /\ OpsCalls(p, "ReadFrame")
  /\ OpsStep([add(ops) EXCEPT !.prog[p] = Tail(@),
                !.g[p] = [pc |-> "r_lock", err |-> "nil"]])

\* conn.lbr.Lock(); EOF on a closed Conn, else fr.ReadFrom(conn.c) begins.
OpsReadFrameLocked(p) ==
  /\ ops.g[p].pc = "r_lock"
  /\ ops.lbr = 0
  /\ OpsStep(IF ops.closed
             THEN [ops EXCEPT !.lbr = p,
                     !.g[p] = [pc |-> "r_done", err |-> "EOF"]]
             ELSE [ops EXCEPT !.lbr = p, !.g[p].pc = "r_read"])

\* fr.ReadFrom(conn.c) returns with a frame of the peer; it blocks while
\* the peer is silent. The transport cannot be closed meanwhile: CloseString
\* closes it under conn.lbr, which this call holds.
OpsReadFrameRead(p) ==
  /\ ops.g[p].pc = "r_read"
  /\ ops.inbox > 0
  /\ OpsStep([ops EXCEPT !.inbox = @ - 1, !.g[p].pc = "r_done"])

\* The deferred conn.lbr.Unlock() and conn.done().
OpsReadFrameReturn(p) ==
  /\ ops.g[p].pc = "r_done"
  /\ OpsStep([done(ops) EXCEPT !.lbr = 0, !.g[p].pc = "idle"])

\* CloseString: conn.lbw.Lock()
OpsCloseString(p) ==
  /\ OpsCalls(p, "CloseString")
  /\ ops.lbw = 0
  /\ OpsStep([ops EXCEPT !.prog[p] = Tail(@), !.lbw = p,
                !.g[p] = [pc |-> "c_lbr", err |-> "nil"]])

\* conn.lbr.Lock(); EOF on a closed Conn, else sendClose writes the Close
\* frame to the transport.
OpsCloseStringLocked(p) ==
  /\ ops.g[p].pc = "c_lbr"
  /\ ops.lbr = 0
  /\ OpsStep(IF ops.closed
             THEN [ops EXCEPT !.lbr = p,
                     !.g[p] = [pc |-> "c_done", err |-> "EOF"]]
             ELSE [ops EXCEPT !.lbr = p, !.wire = Append(@, "close"),
                     !.teardown = ops.count, !.g[p].pc = "c_read"])

\* fr.ReadFrom(conn.c) for the peer's answer, conn.c.Close(), closed = true.
OpsCloseStringRead(p) ==
  /\ ops.g[p].pc = "c_read"
  /\ ops.inbox > 0
  /\ OpsStep([ops EXCEPT !.inbox = @ - 1, !.c = "closed", !.closed = TRUE,
                !.g[p].pc = "c_done"])

\* The deferred unlocks.
OpsCloseStringReturn(p) ==
  /\ ops.g[p].pc = "c_done"
  /\ OpsStep([ops EXCEPT !.lbw = 0, !.lbr = 0, !.g[p].pc = "idle"])

OpsNext ==
  \E p \in Procs :
    \/ OpsWriteFrame(p)
    \/ OpsWriteFrameLocked(p)
    \/ OpsWriteFrameReturn(p)
    \/ OpsReadFrame(p)
    \/ OpsReadFrameLocked(p)
    \/ OpsReadFrameRead(p)
    \/ OpsReadFrameReturn(p)
    \/ OpsCloseString(p)
    \/ OpsCloseStringLocked(p)
    \/ OpsCloseStringRead(p)
    \/ OpsCloseStringReturn(p)

OpsSpec == OpsInit /\ [][OpsNext]_vars

\* C29: when CloseString writes its Close frame, the first step of the
\* teardown, no ReadFrame or WriteFrame call is counted in conn.count.
C29_TeardownAtZero == ops.teardown \in {-1, 0}

\* ------------------------------------------------- ReadFrom and short reads

\* br.Read(buf[:k]) at offset pos of s on a reader that hands out the bytes
\* as they arrived: up to the next arrival boundary in cuts, at most k bytes.
ReadEnd(s, pos, k, cuts) ==
  LET ends == {IF pos + k <= Len(s) THEN pos + k ELSE Len(s)}
                \cup {c \in cuts : c > pos /\ c < pos + k /\ c < Len(s)}
  IN  CHOOSE e \in ends : \A x \in ends : e <= x

TakeShort(s, pos, k, cuts) == SubSeq(s, pos + 1, ReadEnd(s, pos, k, cuts))

\* Frame.readFrom as above, on such a reader.
readFromShort(s, max, cuts) ==
  LET none  == CodecFrame(FALSE, 0, CodeContinuation, FALSE, ZeroKey, 0, <<>>)
      op    == TakeShort(s, 0, 2, cuts)
      hdr   == IF Len(op) = 2
               THEN [none EXCEPT !.fin = op[1] >= 128,
                                 !.rsv = (op[1] \div 16) % 8,
                                 !.code = op[1] % 16,
                                 !.masked = op[2] >= 128]
               ELSE none
      len7  == IF Len(op) = 2 THEN op[2] % 128 ELSE 0
      m     == mustRead(len7)
      ext   == TakeShort(s, 2, m, cuts)
      key   == TakeShort(s, 2 + m, 4, cuts)
      pos   == 2 + m + (IF hdr.masked THEN 4 ELSE 0)
      nn    == LenAfterHotPath(len7, ext)
      isClose == hdr.code = CodeClose
      st    == IF isClose THEN TakeShort(s, pos, 2, cuts) ELSE <<>>
      stErr == IF isClose THEN ReadErr(s, pos, 2) ELSE "nil"
      nb    == IF isClose THEN nn - 2 ELSE nn
      bpos  == pos + Len(st)
      b     == TakeShort(s, bpos, nb, cuts)
      keyed == IF hdr.masked /\ Len(key) = 4 THEN [hdr EXCEPT !.key = key]
               ELSE hdr
  IN  IF Len(op) = 0 THEN [err |-> "EOF", fr |-> none]
      ELSE IF Len(op) < 2 THEN [err |-> "errReadingHeader", fr |-> none]
      ELSE IF Len(ext) < m THEN [err |-> "errReadingLen", fr |-> hdr]
      ELSE IF hdr.masked /\ Len(key) < 4
      THEN [err |-> "errReadingMask", fr |-> hdr]
      ELSE IF max > 0 /\ nn > max
      THEN [err |-> "Max b size exceeded", fr |-> keyed]
      ELSE IF nn = 0 THEN [err |-> "nil", fr |-> keyed]
      ELSE IF stErr # "nil"
      THEN [err |-> stErr, fr |-> keyed]
      ELSE IF nb < 0
      THEN [err |-> "panic", fr |-> [keyed EXCEPT !.status = StatusOf(st)]]
      ELSE IF nb = 0
      THEN [err |-> "nil", fr |-> [keyed EXCEPT !.status = StatusOf(st)]]
      ELSE IF ReadErr(s, bpos, nb) # "nil"
      THEN [err |-> "EOF", fr |-> [keyed EXCEPT !.status = StatusOf(st)]]
      ELSE [err |-> "nil",
            fr |-> [keyed EXCEPT !.status = StatusOf(st), !.b = b]]

\* Frames sent whole, within every limit, and the offset at which the
\* transport splits their bytes into two arrivals (0: no split).
ShortFrames ==
  { d \in CodecFrames :
      /\ d.fin /\ d.rsv = 0 /\ d.n <= Len16
      /\ d.code \in {CodeText, CodeClose} }

ShortInit ==
  /\ NoConn
  /\ users = Unused /\ upgrade = Unused /\ client = Unused /\ ops = Unused
  /\ framePool = Unused /\ limit = Unused /\ locker = Unused
  /\ \E d \in ShortFrames :
       \E cut \in 0..(Len(FrameBytes(FrameOf(d))) - 1) :
         codec = [pc |-> "frame", f |-> d, max |-> maxPayloadSize,
                  size |-> 0, err |-> "nil", out |-> d, same |-> TRUE,
                  cut |-> cut]

\* fr2.ReadFrom(rd) on the bytes written, arriving in two parts.
ShortReadFrom ==
  /\ codec.pc = "written"
  /\ LET r == readFromShort(FrameBytes(FrameOf(codec.f)), codec.max,
                            {codec.cut} \ {0})
     IN  codec' = [codec EXCEPT !.pc = "read", !.err = r.err,
                                !.out = Describe(r.fr),
                                !.same = (r.fr = FrameOf(codec.f))]
  /\ UNCHANGED <<connState, framePool, limit, locker,
               pool, ops, users, upgrade, client>>

ShortNext ==
  \/ CodecWriteTo
  \/ ShortReadFrom

ShortSpec == ShortInit /\ [][ShortNext]_vars

\* C30: ReadFrom on a frame whose bytes arrive in several reads returns
\* without error and with the whole payload.
C30_ShortReadsRetried ==
  codec.pc = "read" => codec.err = "nil" /\ codec.out.n = codec.f.n

\* ------------------------------------------- ReadFrom: lengths and limits

\* The body length a frame declares on the wire.
Declared(d) == d.n + (IF hasStatus(d) THEN 2 ELSE 0)

\* C31: a frame with a 16 bit extended length L, 126 <= L <= 65535, within
\* the limit, is read back with Len() = L and the L bytes of its payload.
C31_Len16ReadBack ==
  (codec.pc = "read" /\ codec.f.code # CodeClose
     /\ codec.f.n >= Len16 /\ codec.f.n <= MaxLen16
     /\ codec.f.n <= codec.max)
    => codec.err = "nil" /\ codec.len = codec.f.n
         /\ codec.out.n = codec.f.n /\ codec.same

\* C32: reading a Close frame whose declared body length is 1 returns an
\* error: it neither panics nor returns a frame with a nil error.
C32_CloseLenOneIsError ==
  (codec.pc = "read" /\ codec.f.code = CodeClose /\ Declared(codec.f) = 1)
    => codec.err \notin {"panic", "nil"}

\* C33: reading a frame whose declared length is above the limit fails with
\* the too-big error and reads no payload.
C33_TooBigRejected ==
  (codec.pc = "read" /\ Declared(codec.f) > codec.max)
    => codec.err = "Max b size exceeded" /\ codec.out.n = 0

\* ------------------------------------------- the Frame object and its pool

\* a | c on the seven length bits of op[1].
RECURSIVE BitOr(_, _)
BitOr(a, c) ==
  IF a = 0 THEN c
  ELSE IF c = 0 THEN a
  ELSE (IF a % 2 = 1 \/ c % 2 = 1 THEN 1 ELSE 0)
         + (2 * BitOr(a \div 2, c \div 2))

ZeroExt == <<0, 0, 0, 0, 0, 0, 0, 0>>

\* A Frame made by framePool.New: op[0] (fin, code), op[1] (masked, len7),
\* op[2:10] (ext), mask, status, the length n of b, and max.
NewFrame ==
  [fin |-> FALSE, code |-> CodeContinuation, masked |-> FALSE, len7 |-> 0,
   ext |-> ZeroExt, key |-> ZeroKey, status |-> 0, n |-> 0,
   max |-> maxPayloadSize]

\* Frame.Reset: resetHeader and resetPayload; fr.max is not touched.
FrameResetOf(fr) == [NewFrame EXCEPT !.max = fr.max]

\* Frame.setPayloadLen and setLength on the Frame's own op bytes:
\* op[1] |= uint8(n), the extended length written over op[2:].
setPayloadLenOf(fr) ==
  LET n == fr.n + (IF fr.status > 0 THEN 2 ELSE 0)
  IN  IF n > MaxLen16
      THEN [fr EXCEPT !.len7 = BitOr(@, Len64), !.ext = BE64(n)]
      ELSE IF n > MaxLen7
      THEN [fr EXCEPT !.len7 = BitOr(@, Len16),
                      !.ext = BE16(n) \o SubSeq(@, 3, 8)]
      ELSE [fr EXCEPT !.len7 = BitOr(@, n)]

\* The payload lengths, limits and keys the Frame is given.
PayloadLens == {0, 1, 2, Len16, MaxLen16 + 1}
PayloadSizes == {maxPayloadSize, DefaultPayloadSize}

NoHeader == [len7 |-> 0, ext |-> <<>>, L |-> 0]

\* A Frame fresh from AcquireFrame in the caller's hands, the pool empty.
FrameInit ==
  /\ NoConn
  /\ codec = Unused /\ users = Unused /\ upgrade = Unused /\ client = Unused
  /\ ops = Unused /\ limit = Unused /\ locker = Unused
  /\ framePool = [pc |-> "held", fr |-> NewFrame, pool |-> {},
                  last |-> "AcquireFrame", out |-> NoHeader]

\* One call on the Frame the caller holds.
FrameCall(op, fr2) ==
  /\ framePool' = [framePool EXCEPT !.fr = fr2, !.last = op,
                                    !.out = NoHeader]
  /\ UNCHANGED <<connState, codec, users, upgrade, client, pool, ops, limit,
                 locker>>

FrameSetFin ==
  /\ framePool.pc = "held"
  /\ FrameCall("SetFin", [framePool.fr EXCEPT !.fin = TRUE])

FrameSetCode ==
  /\ framePool.pc = "held"
  /\ \E code \in {CodeText, CodeClose} :
       FrameCall("SetCode", [framePool.fr EXCEPT !.code = code % 16])

FrameSetStatus ==
  /\ framePool.pc = "held"
  /\ FrameCall("SetStatus", [framePool.fr EXCEPT !.status = StatusNone])

FrameSetPayload ==
  /\ framePool.pc = "held"
  /\ \E n \in PayloadLens :
       FrameCall("SetPayload", [framePool.fr EXCEPT !.n = n])

FrameSetPayloadSize ==
  /\ framePool.pc = "held"
  /\ \E size \in PayloadSizes :
       FrameCall("SetPayloadSize", [framePool.fr EXCEPT !.max = size])

FrameSetMask ==
  /\ framePool.pc = "held"
  /\ \E key \in MaskKeys :
       FrameCall("SetMask",
                 [framePool.fr EXCEPT !.masked = TRUE, !.key = key])

\* UnsetMask: op[1] ^= maskBit.
FrameUnsetMask ==
  /\ framePool.pc = "held"
  /\ FrameCall("UnsetMask", [framePool.fr EXCEPT !.masked = ~@])

\* Mask: only with a payload; the key comes from readMask.
FrameMask ==
  /\ framePool.pc = "held"
  /\ \E key \in MaskKeys :
       FrameCall("Mask",
                 IF framePool.fr.n > 0
                 THEN [framePool.fr EXCEPT !.masked = TRUE, !.key = key]
                 ELSE framePool.fr)

\* Unmask: mask(key, b); UnsetMask().
FrameUnmask ==
  /\ framePool.pc = "held"
  /\ FrameCall("Unmask", [framePool.fr EXCEPT !.masked = ~@])

FrameReset ==
  /\ framePool.pc = "held"
  /\ FrameCall("Reset", FrameResetOf(framePool.fr))

\* WriteTo: setPayloadLen, then op[:s+2] and the rest; out is the length
\* field and the extended length that went out, L the body length.
FrameWriteTo ==
  /\ framePool.pc = "held"
  /\ LET fr2 == setPayloadLenOf(framePool.fr)
         L   == framePool.fr.n + (IF framePool.fr.status > 0 THEN 2 ELSE 0)
         s   == IF L > MaxLen16 THEN 8 ELSE IF L > MaxLen7 THEN 2 ELSE 0
     IN  framePool' = [framePool EXCEPT
                         !.fr = fr2, !.last = "WriteTo",
                         !.out = [len7 |-> fr2.len7,
                                  ext |-> SubSeq(fr2.ext, 1, s), L |-> L]]
  /\ UNCHANGED <<connState, codec, users, upgrade, client, pool, ops, limit,
                 locker>>

\* ReleaseFrame: fr.Reset(); framePool.Put(fr).
ReleaseFrame ==
  /\ framePool.pc = "held"
  /\ framePool' = [framePool EXCEPT
                     !.pc = "pooled", !.last = "ReleaseFrame",
                     !.out = NoHeader,
                     !.fr = FrameResetOf(@),
                     !.pool = @ \cup {FrameResetOf(framePool.fr)}]
  /\ UNCHANGED <<connState, codec, users, upgrade, client, pool, ops, limit,
                 locker>>

\* AcquireFrame: framePool.Get() hands out a Frame that was Put, or a new
\* one.
AcquireFrame ==
  /\ framePool.pc = "pooled"
  /\ \E fr2 \in framePool.pool \cup {NewFrame} :
       framePool' = [framePool EXCEPT
                       !.pc = "held", !.last = "AcquireFrame", !.fr = fr2,
                       !.pool = @ \ {fr2}]
  /\ UNCHANGED <<connState, codec, users, upgrade, client, pool, ops, limit,
                 locker>>

FrameNext ==
  \/ FrameSetFin
  \/ FrameSetCode
  \/ FrameSetStatus
  \/ FrameSetPayload
  \/ FrameSetPayloadSize
  \/ FrameSetMask
  \/ FrameUnsetMask
  \/ FrameMask
  \/ FrameUnmask
  \/ FrameReset
  \/ FrameWriteTo
  \/ ReleaseFrame
  \/ AcquireFrame

FrameSpec == FrameInit /\ [][FrameNext]_vars

\* C34: whatever was done to the Frame before, WriteTo writes the body
\* length L as the 7 bit field alone up to 125, as 126 and 16 bits big
\* endian up to 65535, as 127 and 64 bits big endian above.
C34_LengthEncoding ==
  framePool.last = "WriteTo" =>
    LET L == framePool.out.L
    IN  /\ L <= MaxLen7 =>
             framePool.out.len7 = L /\ framePool.out.ext = <<>>
        /\ (L > MaxLen7 /\ L <= MaxLen16) =>
             framePool.out.len7 = Len16 /\ framePool.out.ext = BE16(L)
        /\ L > MaxLen16 =>
             framePool.out.len7 = Len64 /\ framePool.out.ext = BE64(L)

\* C35: after Unmask or UnsetMask the mask bit is clear.
C35_UnmaskClearsBit ==
  framePool.last \in {"Unmask", "UnsetMask"} => ~framePool.fr.masked

\* C36: the Frame AcquireFrame returns is in the default state, its limit
\* included.
C36_AcquiredIsDefault ==
  framePool.last = "AcquireFrame" => framePool.fr = NewFrame

\* --------------------------------- conn.MaxPayloadSize set by the handler

\* The limit the handler assigns, and the frames the peer may send: the
\* declared lengths below it, between it and the default, above both.
HandlerLimit == 65536
MaxFrames == 2
LimitLens == {1, HandlerLimit + 1, DefaultPayloadSize + 1}

RECURSIVE SeqsUpTo(_, _)
SeqsUpTo(S, n) ==
  IF n = 0 THEN {<<>>}
  ELSE LET shorter == SeqsUpTo(S, n - 1)
       IN  shorter \cup {Append(q, x) : q \in shorter, x \in S}

\* The Conn as acquireConn leaves it: Reset has set MaxPayloadSize to the
\* default and started readLoop; the handler has not run yet.
LimitInit ==
  /\ NoConn
  /\ codec = Unused /\ users = Unused /\ upgrade = Unused /\ client = Unused
  /\ ops = Unused /\ framePool = Unused /\ locker = Unused
  /\ \E lens \in SeqsUpTo(LimitLens, MaxFrames) \ {<<>>} :
       limit = [max |-> DefaultPayloadSize, h |-> "start", rl |-> "acquire",
                frmax |-> 0, lens |-> lens, arrived |-> <<>>,
                decoded |-> <<>>, got |-> 0]

LimitStep(new) ==
  /\ limit' = new
  /\ UNCHANGED <<connState, codec, users, upgrade, client, pool, ops,
                 framePool, locker>>

\* wsHandler: conn.MaxPayloadSize = 65536, before its first read.
LimitAssign ==
  /\ limit.h = "start"
  /\ LimitStep([limit EXCEPT !.max = HandlerLimit, !.h = "assigned"])

\* The peer's next frame reaches the transport; it is marked when the
\* handler's assignment came first.
LimitArrive ==
  /\ Len(limit.arrived) < Len(limit.lens)
  /\ LimitStep([limit EXCEPT !.arrived = Append(@, limit.h # "start")])

\* readLoop: fr := AcquireFrame(); fr.SetPayloadSize(conn.MaxPayloadSize).
LimitSetPayloadSize ==
  /\ limit.rl = "acquire"
  /\ LimitStep([limit EXCEPT !.rl = "read", !.frmax = limit.max])

\* readLoop: fr.ReadFrom(conn.bf) returns once a frame has arrived, decoded
\* under fr.max; then conn.framer <- fr, or the error and the return.
LimitReadFrom ==
  /\ limit.rl = "read"
  /\ Len(limit.decoded) < Len(limit.arrived)
  /\ LET i   == Len(limit.decoded) + 1
         err == limit.frmax > 0 /\ limit.lens[i] > limit.frmax
     IN  LimitStep([limit EXCEPT
                      !.rl = IF err THEN "done" ELSE "acquire",
                      !.decoded = Append(@, [len |-> limit.lens[i],
                                             max |-> limit.frmax,
                                             late |-> limit.arrived[i],
                                             err |-> err])])

\* wsHandler: conn.ReadFull takes the next frame from conn.framer.
LimitReadFull ==
  /\ limit.h = "assigned"
  /\ limit.got < Len(SelectSeq(limit.decoded, LAMBDA d : ~d.err))
  /\ LimitStep([limit EXCEPT !.got = @ + 1])

LimitNext ==
  \/ LimitAssign
  \/ LimitArrive
  \/ LimitSetPayloadSize
  \/ LimitReadFrom
  \/ LimitReadFull

LimitSpec == LimitInit /\ [][LimitNext]_vars

\* C37: every frame received after the handler has assigned MaxPayloadSize
\* is decoded under the assigned limit, the first one included.
C37_AssignedLimitApplies ==
  \A i \in 1..Len(limit.decoded) :
    limit.decoded[i].late => limit.decoded[i].max = HandlerLimit

\* ------------------------------------------------------------- the locker

\* The Lock/Unlock pairs a goroutine makes.
LockRounds == 2

\* newLocker: b false, the Cond's mutex L free (mu = 0), nobody waiting.
\* notify is the Cond's list of waiting goroutines, woken those Signal has
\* released.
LockerInit ==
  /\ NoConn
  /\ codec = Unused /\ users = Unused /\ upgrade = Unused /\ client = Unused
  /\ ops = Unused /\ framePool = Unused /\ limit = Unused
  /\ \E left \in [Procs -> 1..LockRounds] :
       locker = [b |-> FALSE, mu |-> 0, notify |-> <<>>, woken |-> {},
                 g |-> [p \in Procs |-> "idle"], left |-> left]

LockerStep(new) ==
  /\ locker' = new
  /\ UNCHANGED <<connState, codec, users, upgrade, client, pool, ops,
                 framePool, limit>>

\* Lock: lck.cnd.L.Lock()
LockEnter(p) ==
  /\ locker.g[p] = "idle"
  /\ locker.left[p] > 0
  /\ locker.mu = 0
  /\ LockerStep([locker EXCEPT !.mu = p, !.g[p] = "check"])

\* Lock: for lck.b { ... }
LockCheck(p) ==
  /\ locker.g[p] = "check"
  /\ LockerStep([locker EXCEPT
                   !.g[p] = IF locker.b THEN "towait" ELSE "set"])

\* Lock: lck.cnd.Wait() joins the waiting goroutines and releases L.
LockWait(p) ==
  /\ locker.g[p] = "towait"
  /\ LockerStep([locker EXCEPT !.notify = Append(@, p), !.mu = 0,
                               !.g[p] = "wait"])

\* The variant of LockWake that takes the lock without testing lck.b again.
LockWake_NoRecheck(p) ==
  /\ locker.g[p] = "wait"
  /\ p \in locker.woken
  /\ locker.mu = 0
  /\ LockerStep([locker EXCEPT !.woken = @ \ {p}, !.mu = p,
                               !.g[p] = "set"])

\* Lock: Wait returns once the goroutine has been signalled and holds L
\* again; the loop tests lck.b again.
LockWake(p) ==
  /\ locker.g[p] = "wait"
  /\ p \in locker.woken
  /\ locker.mu = 0
  /\ LockerStep([locker EXCEPT !.woken = @ \ {p}, !.mu = p,
                               !.g[p] = "check"])

\* Lock: lck.b = true
LockSet(p) ==
  /\ locker.g[p] = "set"
  /\ LockerStep([locker EXCEPT !.b = TRUE, !.g[p] = "unlockL"])

\* Lock: lck.cnd.L.Unlock() and the return
LockReturn(p) ==
  /\ locker.g[p] = "unlockL"
  /\ LockerStep([locker EXCEPT !.mu = 0, !.g[p] = "held"])

\* Unlock: lck.b = false, without L
Unlock(p) ==
  /\ locker.g[p] = "held"
  /\ LockerStep([locker EXCEPT !.b = FALSE, !.g[p] = "signal"])

\* Unlock: lck.cnd.Signal() releases the goroutine waiting longest, if one
\* waits.
UnlockSignal(p) ==
  /\ locker.g[p] = "signal"
  /\ LockerStep([locker EXCEPT
                   !.notify = IF @ = <<>> THEN @ ELSE Tail(@),
                   !.woken = IF locker.notify = <<>> THEN @
                             ELSE @ \cup {Head(locker.notify)},
                   !.left[p] = @ - 1,
                   !.g[p] = IF locker.left[p] > 1 THEN "idle" ELSE "done"])

LockerProc(p) ==
  \/ LockEnter(p)
  \/ LockCheck(p)
  \/ LockWait(p)
  \/ LockWake(p)
  \/ LockSet(p)
  \/ LockReturn(p)
  \/ Unlock(p)
  \/ UnlockSignal(p)

LockerNext == \E p \in Procs : LockerProc(p)

LockerSpec == LockerInit /\ [][LockerNext]_vars

\* Every goroutine that can take a step takes one eventually.
LockerFairSpec == LockerSpec /\ \A p \in Procs : WF_vars(LockerProc(p))

\* C38: no goroutine stays in Lock's Wait for ever while the lock is free.
C38_NoLostWakeup ==
  \A p \in Procs : []<>(locker.g[p] # "wait" \/ locker.b)

\* C39: at most one goroutine is between its return from Lock and its call
\* of Unlock.
C39_MutualExclusion ==
  Cardinality({p \in Procs : locker.g[p] = "held"}) <= 1

\* One goroutine holds the lock, not for the first time, while another has
\* found it taken and is about to wait.
C39_Witness ==
  \E p, q \in Procs :
    /\ locker.g[p] = "held"
    /\ locker.g[q] = "towait"
    /\ locker.left[p] < LockRounds

====
